---------------------------- MODULE Spec2Model ----------------------------
(***************************************************************************)
(* Job orchestration of the spider backend: the Redis-backed job store     *)
(* (src/core/redis.js, class JobManager), the API process that issues      *)
(* administrative calls against it (src/routes/userRequests.js, jobs       *)
(* router) and the worker process (src/worker.js, class SpiderWorker) with *)
(* its scheduling loop and its per-job pipelines.                          *)
(*                                                                         *)
(* Granularity: one action per Redis command or external call.  Every      *)
(* `await` on a Redis command is a point where the commands of the other   *)
(* process, of other requests and of other pipelines interleave.           *)
(***************************************************************************)
EXTENDS Integers, Sequences, FiniteSets, TLC

\* ------------------------------------------------------------------ bounds
NumJobs == 2          \* job ids the API creates (uuid prefixes, never reused)
MaxPipes == 3         \* pipeline executions that may be in flight at once
NumRequests == 1      \* API requests handled concurrently
MaxCalls == 1         \* cancel, requeue and delete calls one client makes
MaxAdminCalls == 2    \* the same, in the scenario of one administered job
MaxItems == 1         \* items the scrape provider returns at most
MaxRunItems == 5      \* the same, in the scenario of one undisturbed run
MaxAds == 2           \* largest max_ads of a submitted job
NumClaimers == 3      \* concurrent callers of getQueuedJob (queue scenario)
MaxPolls == 2         \* stands for maxPolls = 3600 of the scrape polling loop
MaxStored == 3        \* jobs in the store of the listing scenario
DefaultLimit == 2     \* stands for the default limit = 50 of getAllJobs
MaxWords == 27        \* longest transcript of the validator scenario, in words
MaxClients == 3     \* clients createClient makes in a run
NumCallers == 2     \* concurrent callers of JobManager.init()
MaxInits == 3       \* calls of init() per caller
MaxSpoken == 21       \* most words of a recording of the speech scenario

\* --------------------------------------------------------- program constants
MAX_WORKERS == 2      \* config.MAX_WORKERS: the N of the deployment, here 2
BatchSize == 5        \* progress is written every 5 items
OPENAI_API_KEY == TRUE      \* config.OPENAI_API_KEY is set
SUPABASE_CONFIGURED == TRUE \* config.SUPABASE_URL and config.SUPABASE_KEY are set

Nil == "null"                \* null where a string is expected
NoId == 0                    \* null where a job id is expected
NullJob == [null |-> TRUE]   \* null where an object is expected
NoData == <<>>               \* HGET of a key that does not exist
JobIds == 1..NumJobs
StoredIds == 1..MaxStored
Pipes == 1..MaxPipes
Requests == 1..NumRequests
Claimers == 1..NumClaimers

\* ---------------------------------------------------------------- Redis lists
\* A Redis list is a sequence whose index 1 is the head (left end).
rPush(list, x) == Append(list, x)

lPush(list, x) == <<x>> \o list

rPopValue(list) == IF list = <<>> THEN NoId ELSE list[Len(list)]

rPeekRest(list) == list

rPopRest(list) == IF list = <<>> THEN <<>> ELSE SubSeq(list, 1, Len(list) - 1)

\* LREM key 0 value: every occurrence is removed.
lRem(list, x) == SelectSeq(list, LAMBDA y : y # x)

Occurrences(list, x) == Cardinality({k \in 1..Len(list) : list[k] = x})

\* LRANGE key start stop: 0-based, both ends included, counted from the head;
\* a negative index counts from the tail (-1 is the last element).
lRange(list, start, stop) ==
    LET first == IF start < 0 THEN Len(list) + start + 1 ELSE start + 1
        last == IF stop < 0 THEN Len(list) + stop + 1
                ELSE IF stop + 1 > Len(list) THEN Len(list) ELSE stop + 1
    IN SubSeq(list, IF first < 1 THEN 1 ELSE first, last)

\* Array.prototype.reverse
Reverse(list) == [k \in 1..Len(list) |-> list[Len(list) + 1 - k]]

\* ---------------------------------------------------------------- job records
ProgressWithoutTotal(total) ==
    [scraped |-> 0, analyzed |-> 0, inserted |-> 0, pending |-> 0,
     failed |-> 0, total |-> 0]

ZeroProgress(total) ==
    [scraped |-> 0, analyzed |-> 0, inserted |-> 0, pending |-> 0,
     failed |-> 0, total |-> total]

\* The job specs the API submits: max_ads and the pipeline switches.
JobSpecs ==
    [max_ads : 1..MaxAds, save_json : {TRUE}, save_db : BOOLEAN,
     auto_analyze : {TRUE}, page_id : {"pg"}]

NewJob(job_id, jobData) ==
    [job_id |-> job_id,
     max_ads |-> jobData.max_ads,
     save_json |-> jobData.save_json,
     save_db |-> jobData.save_db,
     auto_analyze |-> jobData.auto_analyze,
     page_id |-> jobData.page_id,
     status |-> "queued",
     progress |-> ZeroProgress(jobData.max_ads),
     result |-> NullJob,
     error |-> Nil,
     message |-> Nil,
     started_at |-> Nil,
     completed_at |-> Nil]

\* JSON.stringify / JSON.parse of a job: the stored string is the list of the
\* field values in declaration order, parsed back by position.
JobFields ==
    <<"job_id", "max_ads", "save_json", "save_db", "auto_analyze", "page_id",
      "status", "progress", "result", "error", "message", "started_at",
      "completed_at">>

FieldIndex(f) == CHOOSE k \in 1..Len(JobFields) : JobFields[k] = f

JSONstringify(job) == [k \in 1..Len(JobFields) |-> job[JobFields[k]]]

JSONparse(data) ==
    [f \in {JobFields[k] : k \in 1..Len(JobFields)} |-> data[FieldIndex(f)]]

\* new Date().toISOString(): the model keeps only that a time was stamped.
Now == "ts"

\* ------------------------------------------------------------------- state
VARIABLES
    jobHash,      \* Redis hashes spider:job:<id>, field "data"
    jobsList,     \* Redis list spider:jobs
    queue,        \* Redis list spider:queue
    redisUp,      \* the Redis server is reachable and the shared client open
    nextId,       \* API: the next fresh job id (uuidv4 prefix)
    req,          \* API: the JobManager call each request handler is in
    sched,        \* worker: position and locals of SpiderWorker.run
    activeJobs,   \* worker: SpiderWorker.activeJobs (Map jobId -> {isResolved})
    pipe,         \* worker: the executions of SpiderWorker._processJob
    got,          \* queue scenario: what each concurrent getQueuedJob returned
    enqLog,       \* history: ids in the order they were pushed on the queue
    claimLog,     \* history: ids in the order getQueuedJob returned them
    cancelledQueued, \* history: ids cancelled while queued and not requeued since
    call,         \* function scenarios: the function called and its arguments
    ret,          \* function scenarios: what the call returned
    redisClient,  \* redis.js: the module variable redisClient (0 is null)
    redisClients, \* the clients createClient has made and the state of each
    initCall      \* the calls of JobManager.init(): position and this.redis

storeVars == <<jobHash, jobsList, queue>>
apiVars == <<nextId, req>>
workerVars == <<sched, activeJobs, pipe>>
histVars == <<got, enqLog, claimLog, cancelledQueued>>
callVars == <<call, ret>>
clientVars == <<redisClient, redisClients, initCall>>
auxVars == <<histVars, callVars, clientVars>>
vars == <<jobHash, jobsList, queue, redisUp, nextId, req, sched, activeJobs,
          pipe, got, enqLog, claimLog, cancelledQueued, call, ret,
          redisClient, redisClients, initCall>>

\* ------------------------------------------------------- JobManager helpers
\* getJob: HGET of the data field, then JSON.parse; null when the key is absent.
getJob(hash, job_id) ==
    IF hash[job_id] = NoData THEN NullJob ELSE JSONparse(hash[job_id])

\* HSET spider:job:<id> data JSON.stringify(job)
hSetJob(hash, job_id, job) == [hash EXCEPT ![job_id] = JSONstringify(job)]

\* getQueuedJob: RPOP spider:queue, one atomic Redis command.
getQueuedJob(list) == [job_id |-> rPopValue(list), rest |-> rPopRest(list)]

\* Object.assign(job, updates) of setRunning / setCompleted / setFailed /
\* cancelJob, and the fields requeueJob assigns.
AssignRunning(job) == [job EXCEPT !.status = "running", !.started_at = Now]

AssignCompleted(job, result) ==
    [job EXCEPT !.status = "completed", !.completed_at = Now, !.result = result]

AssignFailed(job, error) ==
    [job EXCEPT !.status = "failed", !.completed_at = Now, !.error = error]

AssignCancelled(job) == [job EXCEPT !.status = "cancelled"]

AssignRequeued(job) ==
    [job EXCEPT !.status = "queued", !.error = Nil,
                !.progress = ZeroProgress(job.max_ads)]

\* Object.assign(job.progress, progressUpdates); message only when provided.
AssignProgress(job, upd) ==
    [job EXCEPT
       !.progress = [f \in DOMAIN job.progress |->
                       IF f \in DOMAIN upd THEN upd[f] ELSE job.progress[f]],
       !.message = IF "message" \in DOMAIN upd THEN upd.message ELSE job.message]

\* getAllJobs(limit): LRANGE of the first `limit` ids of spider:jobs, getJob of
\* each (ids without a record are skipped), and the array reversed.
getAllJobs(hash, list, limit) ==
    LET jobIds == lRange(list, 0, limit - 1)
        found == SelectSeq(jobIds, LAMBDA job_id : getJob(hash, job_id) # NullJob)
        jobs == [k \in 1..Len(found) |-> getJob(hash, found[k])]
    IN Reverse(jobs)

\* getStats: the loop over getAllJobs() that counts the statuses and adds up
\* the progress counters; stats is the record so far, k the next index.
RECURSIVE StatsLoop(_, _, _)
StatsLoop(stats, jobs, k) ==
    IF k > Len(jobs) THEN stats
    ELSE LET job == jobs[k]
             counted == IF job.status \in DOMAIN stats
                          THEN [stats EXCEPT ![job.status] = @ + 1]
                          ELSE stats
         IN StatsLoop([counted EXCEPT
                         !.total_scraped = @ + job.progress.scraped,
                         !.total_analyzed = @ + job.progress.analyzed,
                         !.total_inserted = @ + job.progress.inserted,
                         !.total_pending = @ + job.progress.pending,
                         !.total_failed = @ + job.progress.failed],
                      jobs, k + 1)

getStats(hash, list) ==
    LET jobs == getAllJobs(hash, list, DefaultLimit) IN
      StatsLoop([total |-> Len(jobs), queued |-> 0, running |-> 0,
                 completed |-> 0, failed |-> 0, cancelled |-> 0,
                 total_scraped |-> 0, total_analyzed |-> 0,
                 total_inserted |-> 0, total_pending |-> 0,
                 total_failed |-> 0], jobs, 1)

\* clearCompleted / clearFailed / clearCancelled: the loop over getAllJobs()
\* that deletes the data field of every job with the status and removes its
\* id from spider:jobs; st is [hash, list, count] so far, k the next index.
RECURSIVE ClearLoop(_, _, _, _)
ClearLoop(st, jobs, status, k) ==
    IF k > Len(jobs) THEN st
    ELSE IF jobs[k].status = status
      THEN ClearLoop([hash |-> [st.hash EXCEPT ![jobs[k].job_id] = NoData],
                      list |-> lRem(st.list, jobs[k].job_id),
                      count |-> st.count + 1], jobs, status, k + 1)
      ELSE ClearLoop(st, jobs, status, k + 1)

clearJobs(hash, list, status) ==
    ClearLoop([hash |-> hash, list |-> list, count |-> 0],
              getAllJobs(hash, list, DefaultLimit), status, 1)

\* --------------------------------------------------------------- API process
\* A client between two calls; calls counts the cancel, requeue and delete
\* calls it has made (the scenarios bound it).
IdleReq(calls) ==
    [op |-> "none", pc |-> "idle", job_id |-> 0, job |-> NullJob, calls |-> calls]

Created == 1..(nextId - 1)

\* A Redis command issued while the server is unreachable rejects; the
\* exception leaves the JobManager call and the route answers 500.
ReqThrows(r) ==
    /\ req[r].pc \notin {"idle"}
    /\ ~redisUp
    /\ req' = [req EXCEPT ![r] = IdleReq(req[r].calls)]
    /\ UNCHANGED <<storeVars, redisUp, nextId, workerVars>>

\* createJob, first command: the record is written with status queued.
CreateJobHSet(r, jobData) ==
    /\ req[r].pc = "idle"
    /\ nextId <= NumJobs
    /\ redisUp
    /\ jobHash' = hSetJob(jobHash, nextId, NewJob(nextId, jobData))
    /\ req' = [req EXCEPT ![r] = [op |-> "create", pc |-> "lpush_jobs",
                                  job_id |-> nextId, job |-> NullJob,
                                  calls |-> req[r].calls]]
    /\ nextId' = nextId + 1
    /\ UNCHANGED <<jobsList, queue, redisUp, workerVars>>

CreateJobLPushJobs(r) ==
    /\ req[r].op = "create" /\ req[r].pc = "lpush_jobs"
    /\ redisUp
    /\ jobsList' = lPush(jobsList, req[r].job_id)
    /\ req' = [req EXCEPT ![r].pc = "lpush_queue"]
    /\ UNCHANGED <<jobHash, queue, redisUp, nextId, workerVars>>

CreateJobLPushQueue(r) ==
    /\ req[r].op = "create" /\ req[r].pc = "lpush_queue"
    /\ redisUp
    /\ queue' = lPush(queue, req[r].job_id)
    /\ req' = [req EXCEPT ![r] = IdleReq(req[r].calls)]
    /\ UNCHANGED <<jobHash, jobsList, redisUp, nextId, workerVars>>

\* cancelJob: updateJob(job_id, {status: cancelled}) is a read, then a write;
\* the LREM follows whether or not the job was found.
CancelJobRead(r, job_id) ==
    /\ req[r].pc = "idle"
    /\ job_id \in Created
    /\ redisUp
    /\ LET job == getJob(jobHash, job_id) IN
         req' = [req EXCEPT ![r] = [op |-> "cancel",
                                    pc |-> IF job = NullJob THEN "lrem" ELSE "hset",
                                    job_id |-> job_id, job |-> job,
                                    calls |-> req[r].calls + 1]]
    /\ UNCHANGED <<storeVars, redisUp, nextId, workerVars>>

CancelJobHSet(r) ==
    /\ req[r].op = "cancel" /\ req[r].pc = "hset"
    /\ redisUp
    /\ jobHash' = hSetJob(jobHash, req[r].job_id, AssignCancelled(req[r].job))
    /\ req' = [req EXCEPT ![r].pc = "lrem", ![r].job = NullJob]
    /\ UNCHANGED <<jobsList, queue, redisUp, nextId, workerVars>>

CancelJobLRem(r) ==
    /\ req[r].op = "cancel" /\ req[r].pc = "lrem"
    /\ redisUp
    /\ queue' = lRem(queue, req[r].job_id)
    /\ req' = [req EXCEPT ![r] = IdleReq(req[r].calls)]
    /\ UNCHANGED <<jobHash, jobsList, redisUp, nextId, workerVars>>

\* requeueJob: read, write with status queued and zeroed progress, LPUSH.
RequeueJobRead(r, job_id) ==
    /\ req[r].pc = "idle"
    /\ job_id \in Created
    /\ redisUp
    /\ getJob(jobHash, job_id) # NullJob
    /\ req' = [req EXCEPT ![r] = [op |-> "requeue", pc |-> "hset",
                                  job_id |-> job_id,
                                  job |-> getJob(jobHash, job_id),
                                  calls |-> req[r].calls + 1]]
    /\ UNCHANGED <<storeVars, redisUp, nextId, workerVars>>

RequeueJobHSet(r) ==
    /\ req[r].op = "requeue" /\ req[r].pc = "hset"
    /\ redisUp
    /\ jobHash' = hSetJob(jobHash, req[r].job_id, AssignRequeued(req[r].job))
    /\ req' = [req EXCEPT ![r].pc = "lpush_queue"]
    /\ UNCHANGED <<jobsList, queue, redisUp, nextId, workerVars>>

RequeueJobLPush(r) ==
    /\ req[r].op = "requeue" /\ req[r].pc = "lpush_queue"
    /\ redisUp
    /\ queue' = lPush(queue, req[r].job_id)
    /\ req' = [req EXCEPT ![r] = IdleReq(req[r].calls)]
    /\ UNCHANGED <<jobHash, jobsList, redisUp, nextId, workerVars>>

\* deleteJob: DEL of the record, LREM from the index, LREM from the queue.
DeleteJobDel(r, job_id) ==
    /\ req[r].pc = "idle"
    /\ job_id \in Created
    /\ redisUp
    /\ jobHash[job_id] # NoData
    /\ jobHash' = [jobHash EXCEPT ![job_id] = NoData]
    /\ req' = [req EXCEPT ![r] = [op |-> "delete", pc |-> "lrem_jobs",
                                  job_id |-> job_id, job |-> NullJob,
                                  calls |-> req[r].calls + 1]]
    /\ UNCHANGED <<jobsList, queue, redisUp, nextId, workerVars>>

DeleteJobLRemJobs(r) ==
    /\ req[r].op = "delete" /\ req[r].pc = "lrem_jobs"
    /\ redisUp
    /\ jobsList' = lRem(jobsList, req[r].job_id)
    /\ req' = [req EXCEPT ![r].pc = "lrem_queue"]
    /\ UNCHANGED <<jobHash, queue, redisUp, nextId, workerVars>>

DeleteJobLRemQueue(r) ==
    /\ req[r].op = "delete" /\ req[r].pc = "lrem_queue"
    /\ redisUp
    /\ queue' = lRem(queue, req[r].job_id)
    /\ req' = [req EXCEPT ![r] = IdleReq(req[r].calls)]
    /\ UNCHANGED <<jobHash, jobsList, redisUp, nextId, workerVars>>

\* The Redis server becomes unreachable, and reachable again.
RedisDown ==
    /\ redisUp
    /\ redisUp' = FALSE
    /\ UNCHANGED <<storeVars, apiVars, workerVars>>

RedisBack ==
    /\ ~redisUp
    /\ redisUp' = TRUE
    /\ UNCHANGED <<storeVars, apiVars, workerVars>>

\* ------------------------------------------------------------ worker process
\* The fields of the job object that _processJob reads from the copy run()
\* fetched before setRunning.
JobConfig(job) ==
    [max_ads |-> job.max_ads, save_json |-> job.save_json,
     save_db |-> job.save_db, auto_analyze |-> job.auto_analyze,
     page_id |-> job.page_id]

IdleSched == [pc |-> "loop", i |-> 0, slots |-> 0, job_id |-> 0, job |-> NullJob,
              rd |-> NullJob]

IdlePipe ==
    [pc |-> "idle", job_id |-> 0, job |-> NullJob, rd |-> NullJob, ads |-> 0,
     analysed |-> 0, i |-> 0, polls |-> 0, cbq |-> <<>>, success |-> 0,
     failed |-> 0, inserted |-> 0, err |-> Nil, scrape |-> "none",
     caught |-> FALSE, ran |-> {}, analysisErrors |-> 0, runInfo |-> NullJob,
     scrapeError |-> Nil]

\* Map.set / Map.delete on activeJobs.
MapSet(m, k, v) == [x \in (DOMAIN m) \cup {k} |-> IF x = k THEN v ELSE m[x]]

MapDelete(m, k) == [x \in (DOMAIN m) \ {k} |-> m[x]]

\* _cleanupCompletedJobs: entries whose isResolved is set are dropped.
cleanupCompletedJobs(m) ==
    [x \in {k \in DOMAIN m : ~m[k].isResolved} |-> m[x]]

\* End of one iteration of the for loop of run(): i++ and the loop test; after
\* the loop, close() and the sleep lead back to the top of the while loop.
NextIteration(s) ==
    IF s.i + 1 < s.slots
      THEN [IdleSched EXCEPT !.pc = "claim", !.i = s.i + 1, !.slots = s.slots]
      ELSE IdleSched

\* Top of the while loop: cleanup, free slots, JobManager.init().
SchedTick ==
    /\ sched.pc = "loop"
    /\ LET cleaned == cleanupCompletedJobs(activeJobs)
           availableSlots == MAX_WORKERS - Cardinality(DOMAIN cleaned)
       IN /\ activeJobs' = cleaned
          /\ sched' = IF availableSlots > 0 /\ redisUp
                        THEN [IdleSched EXCEPT !.pc = "claim",
                                               !.slots = availableSlots]
                        ELSE IdleSched
    /\ UNCHANGED <<storeVars, redisUp, apiVars, pipe>>

\* getQueuedJob inside the for loop; null (empty queue or no connection) breaks.
SchedClaim ==
    /\ sched.pc = "claim"
    /\ LET popped == getQueuedJob(queue) IN
         IF redisUp /\ popped.job_id # NoId
           THEN /\ queue' = popped.rest
                /\ sched' = [sched EXCEPT !.pc = "get_job",
                                          !.job_id = popped.job_id]
           ELSE /\ queue' = queue
                /\ sched' = IdleSched
    /\ UNCHANGED <<jobHash, jobsList, redisUp, apiVars, activeJobs, pipe>>

\* getJob(jobId); a missing job is logged and the loop goes on.
SchedGetJob ==
    /\ sched.pc = "get_job"
    /\ LET job == IF redisUp THEN getJob(jobHash, sched.job_id) ELSE NullJob IN
         sched' = IF job = NullJob
                    THEN NextIteration(sched)
                    ELSE [sched EXCEPT !.pc = "set_running_read",
                                       !.job = JobConfig(job)]
    /\ UNCHANGED <<storeVars, redisUp, apiVars, activeJobs, pipe>>

\* setRunning = updateJob: the read; false (no connection, job gone) is ignored.
SchedSetRunningRead ==
    /\ sched.pc = "set_running_read"
    /\ LET job == IF redisUp THEN getJob(jobHash, sched.job_id) ELSE NullJob IN
         sched' = IF job = NullJob
                    THEN [sched EXCEPT !.pc = "process"]
                    ELSE [sched EXCEPT !.pc = "set_running_write", !.rd = job]
    /\ UNCHANGED <<storeVars, redisUp, apiVars, activeJobs, pipe>>

\* setRunning = updateJob: the write; a rejected HSET is caught and breaks.
SchedSetRunningWrite ==
    /\ sched.pc = "set_running_write"
    /\ IF redisUp
         THEN /\ jobHash' = hSetJob(jobHash, sched.job_id, AssignRunning(sched.rd))
              /\ sched' = [sched EXCEPT !.pc = "process", !.rd = NullJob]
         ELSE /\ jobHash' = jobHash
              /\ sched' = IdleSched
    /\ UNCHANGED <<jobsList, queue, redisUp, apiVars, activeJobs, pipe>>

FreePipe == CHOOSE p \in Pipes : pipe[p].pc = "idle" /\ \A q \in Pipes : pipe[q].pc = "idle" => p <= q

\* this._processJob(jobId, job) up to its first await: activeJobs.set.
SchedProcessJob ==
    /\ sched.pc = "process"
    /\ \E p \in Pipes : pipe[p].pc = "idle"
    /\ activeJobs' = MapSet(activeJobs, sched.job_id, [isResolved |-> FALSE])
    /\ pipe' = [pipe EXCEPT ![FreePipe] =
                  [IdlePipe EXCEPT !.pc = "scrape_start",
                                   !.job_id = sched.job_id,
                                   !.job = sched.job]]
    /\ sched' = NextIteration(sched)
    /\ UNCHANGED <<storeVars, redisUp, apiVars>>

\* ------------------------------------------------------------------ pipeline
\* A progress callback that the scraper or the storage invokes without
\* awaiting it: updateProgress runs up to its HGET at once (no connection or
\* no job: it returns false) and its HSET is issued when the reply arrives.
\* The shared client sends commands in order, so the pending writes of one
\* pipeline are applied in the order of the calls and before the write of any
\* update the pipeline starts later.
FireCallback(cbq, job_id, upd) ==
    IF redisUp /\ jobHash[job_id] # NoData
      THEN Append(cbq, [job |-> getJob(jobHash, job_id), upd |-> upd])
      ELSE cbq

\* (current, total, message) => updateProgress(jobId, {scraped, total, message})
ScrapeProgress(current, total) ==
    [scraped |-> current, total |-> total, message |-> "msg"]

\* A progress update whose pending forgets the failed inserts.
SaveProgressWithoutFailed(total, success, failed) ==
    [inserted |-> success, failed |-> failed, pending |-> total - success]

\* (current, total, success, failed) => updateProgress(jobId, {inserted, ...})
SaveProgress(total, success, failed) ==
    [inserted |-> success, failed |-> failed, pending |-> total - (success + failed)]

\* The HSET of the oldest pending callback; rejected when Redis is unreachable.
PipeCallbackWrite(p) ==
    /\ pipe[p].cbq # <<>>
    /\ LET cb == Head(pipe[p].cbq) IN
         jobHash' = IF redisUp
                      THEN hSetJob(jobHash, pipe[p].job_id,
                                   AssignProgress(cb.job, cb.upd))
                      ELSE jobHash
    /\ pipe' = [pipe EXCEPT ![p].cbq = Tail(pipe[p].cbq)]
    /\ UNCHANGED <<jobsList, queue, redisUp, apiVars, sched, activeJobs>>

\* scrapeError.message mapped to the user message of the scrape catch block.
ScrapeErrors == {"usage limit", "rate limit", "other"}

ActorOutcomes == {"started"} \cup ScrapeErrors

UserMsg(errorMsg) ==
    IF errorMsg = "usage limit" THEN "Apify monthly usage limit exceeded"
    ELSE IF errorMsg = "rate limit" THEN "Apify rate limit exceeded"
    ELSE "Scraping failed: error"

\* The read half of an awaited updateJob/updateProgress of pipeline p: with no
\* connection or no job the call returns false and the pipeline goes on at
\* `skip`; otherwise the copy is kept and the write follows at `write`.
PipeRead(p, write, skip) ==
    LET job == IF redisUp THEN getJob(jobHash, pipe[p].job_id) ELSE NullJob IN
      /\ pipe' = [pipe EXCEPT ![p].rd = job,
                              ![p].pc = IF job = NullJob THEN skip ELSE write]
      /\ UNCHANGED <<storeVars, redisUp, apiVars, sched, activeJobs>>

\* The write half: HSET of the modified copy, then on to `next`; a rejected
\* HSET throws and control passes to `thrown`.
PipeWrite(p, job, next, thrown) ==
    /\ pipe[p].cbq = <<>>
    /\ IF redisUp
         THEN /\ jobHash' = hSetJob(jobHash, pipe[p].job_id, job)
              /\ pipe' = [pipe EXCEPT ![p].rd = NullJob, ![p].pc = next]
         ELSE /\ jobHash' = jobHash
              /\ pipe' = [pipe EXCEPT ![p].rd = NullJob, ![p].pc = thrown,
                                      ![p].caught = TRUE,
                                      ![p].err = "Redis error"]
    /\ UNCHANGED <<jobsList, queue, redisUp, apiVars, sched, activeJobs>>

PipeLocal(p, next) ==
    /\ pipe' = [pipe EXCEPT ![p] = next]
    /\ UNCHANGED <<storeVars, redisUp, apiVars, sched, activeJobs>>

\* scraper.scrape: the two 'Starting Apify actor...' callbacks.
ScrapeStart(p) ==
    /\ pipe[p].pc = "scrape_start"
    /\ LET upd == ScrapeProgress(0, pipe[p].job.max_ads)
           q1 == FireCallback(pipe[p].cbq, pipe[p].job_id, upd)
       IN PipeLocal(p, [pipe[p] EXCEPT !.pc = "actor_call",
                          !.cbq = FireCallback(q1, pipe[p].job_id, upd)])

\* client.actor(...).call: the run starts, or the call throws; `outcomes` are
\* the answers the provider gives ("started" or one of ScrapeErrors).
ScrapeActorCall(p, outcomes) ==
    /\ pipe[p].pc = "actor_call"
    /\ \E o \in outcomes :
         IF o = "started"
           THEN PipeLocal(p, [pipe[p] EXCEPT !.pc = "poll",
                  !.cbq = FireCallback(pipe[p].cbq, pipe[p].job_id,
                            ScrapeProgress(0, pipe[p].job.max_ads))])
           ELSE PipeLocal(p, [pipe[p] EXCEPT !.pc = "scrape_failed_read",
                                             !.scrape = "threw",
                                             !.scrapeError = o,
                                             !.err = UserMsg(o)])

\* The states the provider reports for a run; READY stands for the states
\* the loop does not name (READY, TIMING-OUT, TIMED-OUT, ABORTING).
ProviderStates == {"READY", "RUNNING", "SUCCEEDED", "FAILED", "ABORTED"}

\* The messages of the errors the polling loop throws.
RunFailed(statusMessage) ==
    "Apify run failed: " \o (IF statusMessage = Nil THEN "Actor run failed"
                             ELSE statusMessage)

TimedOut == "Apify run timed out after 1 hour"

\* scraper.scrape throws: the catch block of _processJob around it takes over.
ScrapeThrows(pr, message) ==
    [pr EXCEPT !.pc = "scrape_failed_read", !.scrape = "threw",
               !.scrapeError = message, !.err = UserMsg("other")]

\* An iteration that neither breaks nor throws, with pollCount left as it is.
PollWithoutCount(pr) == pr

\* The end of an iteration that neither breaks nor throws: the sleep of one
\* second and pollCount++.
PollAgain(pr) == [pr EXCEPT !.polls = pr.polls + 1]

\* One iteration of the polling loop, or the timeout after it.
ScrapePoll(p) ==
    /\ pipe[p].pc = "poll"
    /\ IF pipe[p].polls >= MaxPolls
         THEN PipeLocal(p, ScrapeThrows(pipe[p], TimedOut))
         ELSE \E status \in ProviderStates :
              \E statusMessage \in {Nil, "out of memory"} :
              \E processed \in 0..MaxItems :
                LET pr == [pipe[p] EXCEPT
                             !.runInfo = [status |-> status,
                                          statusMessage |-> statusMessage]]
                IN
                CASE status = "SUCCEEDED" ->
                       /\ processed = 0 /\ statusMessage = Nil
                       /\ PipeLocal(p, [pr EXCEPT !.pc = "list_items",
                            !.cbq = FireCallback(pr.cbq, pr.job_id,
                                      ScrapeProgress(0, pr.job.max_ads))])
                  [] status \in {"FAILED", "ABORTED"} ->
                       /\ processed = 0
                       /\ PipeLocal(p, ScrapeThrows(pr, RunFailed(statusMessage)))
                  [] status = "RUNNING" ->
                       /\ statusMessage = Nil
                       /\ PipeLocal(p, PollAgain([pr EXCEPT
                            !.cbq = IF processed > 0
                                      THEN FireCallback(pr.cbq, pr.job_id,
                                             ScrapeProgress(processed,
                                                            pr.job.max_ads))
                                      ELSE pr.cbq]))
                  [] OTHER ->
                       /\ processed = 0 /\ statusMessage = Nil
                       /\ PipeLocal(p, PollAgain(pr))

\* dataset.listItems and the test for an empty result in _processJob.
ScrapeListItems(p, maxN) ==
    /\ pipe[p].pc = "list_items"
    /\ \/ \E n \in 0..maxN :
            PipeLocal(p, [pipe[p] EXCEPT
              !.cbq = FireCallback(pipe[p].cbq, pipe[p].job_id,
                                   ScrapeProgress(n, n)),
              !.ads = n,
              !.scrape = IF n = 0 THEN "empty" ELSE "ok",
              !.pc = IF n = 0 THEN "scrape_failed_read"
                     ELSE "progress_scraped_read",
              !.err = IF n = 0 THEN "No ads found" ELSE Nil])
       \/ PipeLocal(p, ScrapeThrows(pipe[p], "Failed to fetch results: error"))

\* setFailed(jobId, userMsg) after a scrape error or an empty result.
ScrapeFailedRead(p) ==
    /\ pipe[p].pc = "scrape_failed_read"
    /\ PipeRead(p, "scrape_failed_write", "finally")

ScrapeFailedWrite(p) ==
    /\ pipe[p].pc = "scrape_failed_write"
    /\ PipeWrite(p, AssignFailed(pipe[p].rd, pipe[p].err), "finally", "catch_read")

\* Where the pipeline goes on after the scrape, the analysis and the JSON file.
AfterSaveJson(job) ==
    IF job.save_db /\ SUPABASE_CONFIGURED THEN "save_db_brand"
    ELSE "progress_saved_read"

AfterAnalyze(job) == IF job.save_json THEN "save_json" ELSE AfterSaveJson(job)

AfterScrape(job) ==
    IF job.auto_analyze /\ OPENAI_API_KEY THEN "analyze" ELSE AfterAnalyze(job)

\* An exception that reaches the catch block of _processJob.
Thrown(pr, message) ==
    [pr EXCEPT !.pc = "catch_read", !.caught = TRUE, !.err = message, !.rd = NullJob]

\* updateProgress(jobId, {scraped: ads.length, pending: ads.length})
ProgressScrapedRead(p) ==
    /\ pipe[p].pc = "progress_scraped_read"
    /\ PipeRead(p, "progress_scraped_write", AfterScrape(pipe[p].job))

ProgressScrapedWrite(p) ==
    /\ pipe[p].pc = "progress_scraped_write"
    /\ PipeWrite(p, AssignProgress(pipe[p].rd,
                      [scraped |-> pipe[p].ads, pending |-> pipe[p].ads]),
                 AfterScrape(pipe[p].job), "catch_read")

\* An analysis loop whose first error leaves the loop for the catch block.
AnalyzeAbort(pr) == Thrown(pr, "analysis error")

\* Where the analysis loop goes after item i (0-based): the next item or on.
AnalyzeNext(pr) ==
    IF pr.i + 1 < pr.ads
      THEN [pr EXCEPT !.pc = "analyze", !.i = pr.i + 1, !.rd = NullJob]
      ELSE [pr EXCEPT !.pc = AfterAnalyze(pr.job), !.i = 0, !.rd = NullJob]

\* analyzer.analyzeAd(ads[i]): it sets ad.analysis, returns without one, or
\* throws (logged, the loop goes on); analysisErrors counts the logged errors.
AnalyzeAd(p) ==
    /\ pipe[p].pc = "analyze"
    /\ \E outcome \in {"analysis", "none", "throws"} :
         LET pr == [pipe[p] EXCEPT
                      !.ran = pipe[p].ran \cup {"analyze"},
                      !.analysed = IF outcome = "analysis"
                                     THEN pipe[p].analysed + 1
                                     ELSE pipe[p].analysed,
                      !.analysisErrors = IF outcome = "throws"
                                           THEN pipe[p].analysisErrors + 1
                                           ELSE pipe[p].analysisErrors]
         IN PipeLocal(p, IF outcome # "throws" /\ (pr.i + 1) % BatchSize = 0
                           THEN [pr EXCEPT !.pc = "analyze_progress_read"]
                           ELSE AnalyzeNext(pr))

\* updateProgress(jobId, {analyzed: i + 1}) inside the try of the loop body.
AnalyzeProgressRead(p) ==
    /\ pipe[p].pc = "analyze_progress_read"
    /\ LET job == IF redisUp THEN getJob(jobHash, pipe[p].job_id) ELSE NullJob IN
         PipeLocal(p, IF job = NullJob THEN AnalyzeNext(pipe[p])
                      ELSE [pipe[p] EXCEPT !.pc = "analyze_progress_write",
                                           !.rd = job])

AnalyzeProgressWrite(p) ==
    /\ pipe[p].pc = "analyze_progress_write"
    /\ pipe[p].cbq = <<>>
    /\ jobHash' = IF redisUp
                    THEN hSetJob(jobHash, pipe[p].job_id,
                           AssignProgress(pipe[p].rd,
                                          [analyzed |-> pipe[p].i + 1]))
                    ELSE jobHash
    /\ pipe' = [pipe EXCEPT ![p] = AnalyzeNext(pipe[p])]
    /\ UNCHANGED <<jobsList, queue, redisUp, apiVars, sched, activeJobs>>

\* _saveJson: writeFile succeeds or throws; the call is not guarded.
SaveJson(p) ==
    /\ pipe[p].pc = "save_json"
    /\ LET pr == [pipe[p] EXCEPT !.ran = pipe[p].ran \cup {"save_json"}] IN
         \/ PipeLocal(p, [pr EXCEPT !.pc = AfterSaveJson(pr.job)])
         \/ PipeLocal(p, Thrown(pr, "write error"))

\* saveRawAdsBatch: createOrUpdateBrand returns the brand, or returns null or
\* throws (both end the batch with success 0 and failed = ads.length).
SaveDbBrand(p) ==
    /\ pipe[p].pc = "save_db_brand"
    /\ LET pr == [pipe[p] EXCEPT !.ran = pipe[p].ran \cup {"save_db"},
                                 !.i = 0, !.success = 0, !.failed = 0] IN
         \/ PipeLocal(p, [pr EXCEPT !.pc = "save_db_item"])
         \/ PipeLocal(p, [pr EXCEPT !.pc = "progress_saved_read",
                                    !.failed = pr.ads])

\* saveRawAdsBatch: saveRawAd(ads[i]) returns an id, returns null or throws;
\* the progress callback is invoked, not awaited, after every 5th item that
\* did not throw.
SaveDbItem(p) ==
    /\ pipe[p].pc = "save_db_item"
    /\ \E outcome \in {"id", "null", "throws"} :
         LET success == IF outcome = "id" THEN pipe[p].success + 1
                        ELSE pipe[p].success
             failed == IF outcome = "id" THEN pipe[p].failed
                       ELSE pipe[p].failed + 1
             last == pipe[p].i + 1 >= pipe[p].ads
         IN PipeLocal(p, [pipe[p] EXCEPT
              !.success = success,
              !.failed = failed,
              !.cbq = IF outcome # "throws" /\ (pipe[p].i + 1) % BatchSize = 0
                        THEN FireCallback(pipe[p].cbq, pipe[p].job_id,
                               SaveProgress(pipe[p].ads, success, failed))
                        ELSE pipe[p].cbq,
              !.i = IF last THEN 0 ELSE pipe[p].i + 1,
              !.pc = IF last THEN "progress_saved_read" ELSE "save_db_item"])

\* updateProgress after step 4: the batch result, or only pending: 0.
SavedProgress(pr) ==
    IF "save_db" \in pr.ran
      THEN [inserted |-> pr.success, failed |-> pr.failed, pending |-> 0]
      ELSE [pending |-> 0]

ProgressSavedRead(p) ==
    /\ pipe[p].pc = "progress_saved_read"
    /\ PipeRead(p, "progress_saved_write", "complete_get")

ProgressSavedWrite(p) ==
    /\ pipe[p].pc = "progress_saved_write"
    /\ PipeWrite(p, AssignProgress(pipe[p].rd, SavedProgress(pipe[p])),
                 "complete_get", "catch_read")

\* (await jobManager.getJob(jobId)).progress.inserted: null has no progress.
CompleteGetJob(p) ==
    /\ pipe[p].pc = "complete_get"
    /\ LET job == IF redisUp THEN getJob(jobHash, pipe[p].job_id) ELSE NullJob IN
         PipeLocal(p, IF job = NullJob
                        THEN Thrown(pipe[p], "TypeError")
                        ELSE [pipe[p] EXCEPT !.pc = "complete_read",
                                             !.inserted = job.progress.inserted])

\* setCompleted(jobId, {ads_scraped, ads_analyzed, ads_inserted})
CompleteRead(p) ==
    /\ pipe[p].pc = "complete_read"
    /\ PipeRead(p, "complete_write", "side_effects")

CompleteWrite(p) ==
    /\ pipe[p].pc = "complete_write"
    /\ PipeWrite(p, AssignCompleted(pipe[p].rd,
                      [ads_scraped |-> pipe[p].ads,
                       ads_analyzed |-> pipe[p].analysed,
                       ads_inserted |-> pipe[p].inserted]),
                 "side_effects", "catch_read")

\* markUserRequestComplete / createUserBrandAndNotification /
\* updateUserBrandLastScrap: each catches its own errors.
SideEffects(p) ==
    /\ pipe[p].pc = "side_effects"
    /\ PipeLocal(p, [pipe[p] EXCEPT
         !.pc = "finally",
         !.ran = IF pipe[p].job.page_id # Nil /\ SUPABASE_CONFIGURED
                    /\ "save_db" \in pipe[p].ran /\ pipe[p].success > 0
                   THEN pipe[p].ran \cup {"side_effects"}
                   ELSE pipe[p].ran])

\* catch (error): new JobManager, init, setFailed(jobId, error.message).
CatchRead(p) ==
    /\ pipe[p].pc = "catch_read"
    /\ PipeRead(p, "catch_write", "finally")

CatchWrite(p) ==
    /\ pipe[p].pc = "catch_write"
    /\ PipeWrite(p, AssignFailed(pipe[p].rd, pipe[p].err), "finally", "finally")

\* finally: activeJobs.delete(jobId); the execution is over.
Finally(p) ==
    /\ pipe[p].pc = "finally"
    /\ pipe[p].cbq = <<>>
    /\ activeJobs' = MapDelete(activeJobs, pipe[p].job_id)
    /\ pipe' = [pipe EXCEPT ![p] = IdlePipe]
    /\ UNCHANGED <<storeVars, redisUp, apiVars, sched>>

\* ------------------------------------------------------ transcript validator
\* A string is the sequence of its characters; NullText is null where a
\* string is expected.
NullText == <<Nil>>

Whitespace == {" ", "\n"}

Lowercase ==
    <<"a", "b", "c", "d", "e", "f", "g", "h", "i", "j", "k", "l", "m",
      "n", "o", "p", "q", "r", "s", "t", "u", "v", "w", "x", "y", "z">>

Uppercase ==
    <<"A", "B", "C", "D", "E", "F", "G", "H", "I", "J", "K", "L", "M",
      "N", "O", "P", "Q", "R", "S", "T", "U", "V", "W", "X", "Y", "Z">>

Digits == {"0", "1", "2", "3", "4", "5", "6", "7", "8", "9"}

\* The letters the transcripts of the scenarios are written in.
Alphabet == Lowercase \o SubSeq(Uppercase, 1, 4)

\* A string kept as it is.
keepCase(text) == text

\* String.prototype.toLowerCase
Lower(c) ==
    IF \E i \in 1..Len(Uppercase) : Uppercase[i] = c
      THEN Lowercase[CHOOSE i \in 1..Len(Uppercase) : Uppercase[i] = c]
      ELSE c

toLowerCase(text) == [k \in 1..Len(text) |-> Lower(text[k])]

\* String.prototype.trim
trim(text) ==
    LET keep == {k \in 1..Len(text) : text[k] \notin Whitespace} IN
      IF keep = {} THEN <<>>
      ELSE SubSeq(text, CHOOSE k \in keep : \A m \in keep : k <= m,
                        CHOOSE k \in keep : \A m \in keep : k >= m)

\* text.replace(/\s+/g, " "): every run of whitespace becomes one space.
\* Characters lo..hi of the result: a character that is not whitespace is
\* kept, the first of a run of whitespace is written as a space, the others
\* of the run are dropped.
RECURSIVE replaceSpacesIn(_, _, _)
replaceSpacesIn(text, lo, hi) ==
    IF lo > hi THEN <<>>
    ELSE IF lo = hi
      THEN IF text[lo] \notin Whitespace THEN <<text[lo]>>
           ELSE IF lo > 1 /\ text[lo - 1] \in Whitespace THEN <<>>
           ELSE <<" ">>
    ELSE LET mid == (lo + hi) \div 2 IN
           replaceSpacesIn(text, lo, mid) \o replaceSpacesIn(text, mid + 1, hi)

replaceSpaces(text) == replaceSpacesIn(text, 1, Len(text))

\* clean without the trim.
cleanWithoutTrim(text) ==
    replaceSpaces(IF text = NullText THEN <<>> ELSE text)

\* clean(text): (text || "").trim().replace(/\s+/g, " ")
clean(text) == replaceSpaces(trim(IF text = NullText THEN <<>> ELSE text))

\* text.split(" "): the pieces between the spaces; "" gives [""].
RECURSIVE split(_)
split(text) ==
    LET spaces == {k \in 1..Len(text) : text[k] = " "} IN
      IF spaces = {} THEN <<text>>
      ELSE LET k == CHOOSE i \in spaces : \A m \in spaces : i <= m IN
             <<SubSeq(text, 1, k - 1)>> \o split(SubSeq(text, k + 1, Len(text)))

\* words.join(" ")
RECURSIVE join(_)
join(words) ==
    IF words = <<>> THEN <<>>
    ELSE IF Len(words) = 1 THEN words[1]
    ELSE words[1] \o <<" ">> \o join(Tail(words))

\* words.slice(0, n)
slice(words, n) == SubSeq(words, 1, IF n < Len(words) THEN n ELSE Len(words))

FIRST_N_WORDS_DEFAULT == 12
SUBSTRING_WINDOW == 25
StartWords == 15       \* firstNWords(transcript, 15), the start region
MinSentenceWords == 5  \* wordCount >= 5 && wordCount <= 25
MaxSentenceWords == 25

firstNWords(transcript, n) == join(slice(split(clean(transcript)), n))

\* t.match(/^(.+?[.!?])(?:\s|$)/): the shortest prefix of two characters or
\* more that ends in '.', '!' or '?' and is followed by a space or the end.
SentenceEnds(t) ==
    {k \in 2..Len(t) : /\ t[k] \in {".", "!", "?"}
                        /\ (k = Len(t) \/ t[k + 1] \in Whitespace)}

firstSentence(transcript) ==
    LET t == clean(transcript)
        ends == SentenceEnds(t)
    IN IF ends = {} THEN firstNWords(t, FIRST_N_WORDS_DEFAULT)
       ELSE trim(SubSeq(t, 1, CHOOSE k \in ends : \A m \in ends : k <= m))

\* String.prototype.substring(i, i + 2), i counted from 1.
Bigram(text, i) == SubSeq(text, i, i + 1)

\* The Map of the bigrams of a string to their numbers of occurrences.
BigramCounts(text) ==
    [bigram \in {Bigram(text, i) : i \in 1..(Len(text) - 1)} |->
       Cardinality({i \in 1..(Len(text) - 1) : Bigram(text, i) = bigram})]

\* The second loop of similarity: every bigram of cleanB that bigramsA still
\* holds counts once and is taken out of bigramsA.
RECURSIVE IntersectionLoop(_, _, _, _)
IntersectionLoop(bigramsA, cleanB, i, intersection) ==
    IF i > Len(cleanB) - 1 THEN intersection
    ELSE LET bigram == Bigram(cleanB, i)
             count == IF bigram \in DOMAIN bigramsA THEN bigramsA[bigram] ELSE 0
         IN IF count > 0
              THEN IntersectionLoop([bigramsA EXCEPT ![bigram] = count - 1],
                                    cleanB, i + 1, intersection + 1)
              ELSE IntersectionLoop(bigramsA, cleanB, i + 1, intersection)

\* Scores are fractions num/den; the quotients of the code are of integers
\* below 2^53 and are compared with 0.6 and 1.0, which the fractions decide
\* exactly as the doubles do.
Score(num, den) == [num |-> num, den |-> den]

AtLeast(x, y) == x.num * y.den >= y.num * x.den

\* A threshold every similarity reaches.
NoThreshold == Score(0, 10)

SIMILARITY_THRESHOLD == Score(6, 10)

\* similarity(a, b): the Dice coefficient of the bigrams of the two strings.
similarity(a, b) ==
    LET cleanA == toLowerCase(clean(a))
        cleanB == toLowerCase(clean(b))
    IN IF cleanA = cleanB THEN Score(1, 1)
       ELSE IF Len(cleanA) < 2 \/ Len(cleanB) < 2 THEN Score(0, 1)
       ELSE Score(2 * IntersectionLoop(BigramCounts(cleanA), cleanB, 1, 0),
                  (Len(cleanA) - 1) + (Len(cleanB) - 1))

\* String.prototype.startsWith
startsWith(text, part) ==
    Len(part) <= Len(text) /\ SubSeq(text, 1, Len(part)) = part

\* String.prototype.includes
includes(text, part) ==
    \E k \in 0..(Len(text) - Len(part)) : SubSeq(text, k + 1, k + Len(part)) = part

isSubstringOfStart(hook, transcript) ==
    includes(toLowerCase(firstNWords(transcript, SUBSTRING_WINDOW)),
             toLowerCase(clean(hook)))

\* The result of a fallback to a prefix of the transcript.
Fallback(hook, source) == [hook |-> hook, source |-> source, score |-> Score(1, 1)]

validateHook(gptHook, rawTranscript) ==
    LET transcript == clean(rawTranscript)
        startRegion == firstNWords(transcript, StartWords)
        provided == gptHook # NullText /\ gptHook # <<>> /\ Len(clean(gptHook)) > 0
        hook == clean(gptHook)
        sim == similarity(hook, startRegion)
        sentence == firstSentence(transcript)
        wordCount == Len(split(sentence))
        words == firstNWords(transcript, FIRST_N_WORDS_DEFAULT)
    IN IF transcript = <<>>
         THEN [hook |-> NullText, source |-> "none", score |-> Score(0, 1)]
       ELSE IF provided /\ isSubstringOfStart(hook, transcript)
         THEN [hook |-> hook, source |-> "gpt", score |-> sim]
       ELSE IF provided /\ AtLeast(sim, SIMILARITY_THRESHOLD)
         THEN [hook |-> hook, source |-> "gpt", score |-> sim]
       ELSE IF wordCount >= MinSentenceWords /\ wordCount <= MaxSentenceWords
         THEN Fallback(sentence, "first_sentence")
       ELSE IF words # <<>>
         THEN Fallback(words, "first_n_words")
       ELSE [hook |-> NullText, source |-> "none", score |-> Score(0, 1)]

\* ------------------------------------------------------ speech-presence filter
\* no_speech_prob is kept in percent (0.1 is 10); the sums of the scenarios
\* stay clear of the thresholds, where the rounding of doubles could matter.
MaxMeanNoSpeech == 50     \* avgNoSpeechProb > 0.5: no speech
SpeechSegmentBelow == 70  \* segments with no_speech_prob < 0.7 are kept
MinChars == 100
MinWords == 15
MaxDigits == 5
LyricsWords == 5          \* words.length > 5 before repetition is judged

\* The sum taken over the segments that are kept as speech.
SumProbOfSpeech(segments) ==
    LET RECURSIVE Sum(_)
        Sum(segs) == IF segs = <<>> THEN 0
                     ELSE (IF Head(segs).no_speech_prob < SpeechSegmentBelow
                             THEN Head(segs).no_speech_prob ELSE 0)
                          + Sum(Tail(segs))
    IN Sum(segments)

RECURSIVE SumProb(_)
SumProb(segments) ==
    IF segments = <<>> THEN 0
    ELSE Head(segments).no_speech_prob + SumProb(Tail(segments))

\* A transcription that gives up when any segment is without speech.
transcribeAllOrNothing(segments) ==
    IF segments = <<>> THEN NullText
    ELSE IF \E k \in 1..Len(segments) :
              segments[k].no_speech_prob >= SpeechSegmentBelow THEN NullText
    ELSE trim(join([k \in 1..Len(segments) |-> segments[k].text]))

\* _transcribeAudio after the download and the Whisper call: the text of the
\* segments that carry speech, or null.
transcribeAudio(segments) ==
    LET speechSegments ==
          SelectSeq(segments, LAMBDA seg : seg.no_speech_prob < SpeechSegmentBelow)
    IN IF segments = <<>> THEN NullText
       ELSE IF SumProb(segments) > MaxMeanNoSpeech * Len(segments) THEN NullText
       ELSE IF speechSegments = <<>> THEN NullText
       ELSE trim(join([k \in 1..Len(speechSegments) |-> speechSegments[k].text]))

GarbagePhrases ==
    <<
      <<"t", "h", "a", "n", "k", " ", "y", "o", "u", " ", "f", "o", "r", " ",
        "w", "a", "t", "c", "h", "i", "n", "g">>,
      <<"t", "h", "a", "n", "k", "s", " ", "f", "o", "r", " ", "w", "a", "t",
        "c", "h", "i", "n", "g">>,
      <<"s", "u", "b", "s", "c", "r", "i", "b", "e">>,
      <<"l", "i", "k", "e", " ", "a", "n", "d", " ", "s", "u", "b", "s", "c",
        "r", "i", "b", "e">>,
      <<"c", "l", "i", "c", "k", " ", "t", "h", "e", " ", "l", "i", "n", "k">>,
      <<"l", "i", "n", "k", " ", "i", "n", " ", "b", "i", "o">>,
      <<"s", "i", "g", "n", " ", "u", "p", " ", "n", "o", "w">>,
      <<"p", "l", "e", "a", "s", "e", " ", "s", "i", "g", "n", " ", "u", "p">>,
      <<"c", "a", "u", "g", "h", "t", " ", "o", "n", " ", "c", "a", "m", "e",
        "r", "a">>,
      <<"p", "s", "y", "c", "h", "i", "c", " ", "r", "e", "a", "d", "i", "n",
        "g">>,
      <<"f", "o", "l", "l", "o", "w", " ", "f", "o", "r", " ", "m", "o", "r",
        "e">>,
      <<"l", "i", "n", "k", " ", "i", "n", " ", "d", "e", "s", "c", "r", "i",
        "p", "t", "i", "o", "n">>
    >>

\* text.split(/\s+/): the pieces between the runs of whitespace.
splitSpaces(text) == split(replaceSpaces(text))

\* /^\d+\s/.test(text): digits, then whitespace, at the start.
StartsWithNumber(text) ==
    \E k \in 1..(Len(text) - 1) :
      /\ \A i \in 1..k : text[i] \in Digits
      /\ text[k + 1] \in Whitespace

\* The checks with numbers judged before repetition.
rejectedReasonGibberishFirst(transcript) ==
    LET trimmedTranscript == IF transcript = NullText THEN <<>> ELSE trim(transcript)
        words == splitSpaces(toLowerCase(trimmedTranscript))
        digits == Cardinality({k \in 1..Len(trimmedTranscript) :
                                 trimmedTranscript[k] \in Digits})
    IN IF Len(trimmedTranscript) < MinChars
          \/ Len(SelectSeq(words, LAMBDA w : Len(w) > 0)) < MinWords
         THEN "too_short"
       ELSE IF \E k \in 1..Len(GarbagePhrases) :
                 includes(toLowerCase(trimmedTranscript), GarbagePhrases[k])
         THEN "garbage_phrase"
       ELSE IF StartsWithNumber(trimmedTranscript) \/ digits > MaxDigits
         THEN "gibberish"
       ELSE IF Len(words) > LyricsWords
               /\ 2 * Cardinality({words[k] : k \in 1..Len(words)}) < Len(words)
         THEN "song_lyrics"
       ELSE Nil

\* The checks of _analyzeVideo on the transcript: null when the transcript
\* is valid, the rejected_reason otherwise.
rejectedReason(transcript) ==
    LET trimmedTranscript == IF transcript = NullText THEN <<>> ELSE trim(transcript)
        wordCount == Len(SelectSeq(splitSpaces(trimmedTranscript),
                                   LAMBDA w : Len(w) > 0))
        lowerTranscript == toLowerCase(trimmedTranscript)
        isGarbagePhrase ==
          \E k \in 1..Len(GarbagePhrases) :
            includes(lowerTranscript, GarbagePhrases[k])
        words == splitSpaces(lowerTranscript)
        uniqueWords == {words[k] : k \in 1..Len(words)}
        isSongLyrics == /\ Len(words) > LyricsWords
                        /\ 2 * Cardinality(uniqueWords) < Len(words)
        hasExcessiveNumbers ==
          Cardinality({k \in 1..Len(trimmedTranscript) :
                         trimmedTranscript[k] \in Digits}) > MaxDigits
        isGibberish == StartsWithNumber(trimmedTranscript) \/ hasExcessiveNumbers
    IN IF Len(trimmedTranscript) < MinChars \/ wordCount < MinWords
         THEN "too_short"
       ELSE IF isGarbagePhrase THEN "garbage_phrase"
       ELSE IF isSongLyrics THEN "song_lyrics"
       ELSE IF isGibberish THEN "gibberish"
       ELSE Nil

\* ------------------------------------------------------- the shared client
\* The clients of the `redis` package (v4): a client is open from the call
\* of connect() until it is closed, also while it connects or reconnects.
ClientIds == 1..MaxClients
Callers == 1..NumCallers

isOpen(k) == redisClients[k] \in {"connecting", "ready", "reconnecting"}

IdleInit(calls) == [pc |-> "idle", client |-> 0, redis |-> 0, calls |-> calls]

NoClients ==
    /\ redisClient = 0
    /\ redisClients = [k \in ClientIds |-> "none"]
    /\ initCall = [c \in Callers |-> IdleInit(0)]

\* JobManager.init() -> getRedisClient() up to its await: the open client is
\* returned as it is; a closed one is dropped; without a client one is
\* created, its handlers are registered and connect() is called.
GetRedisClient(c) ==
    /\ initCall[c].pc = "idle"
    /\ initCall[c].calls < MaxInits
    /\ IF redisClient # 0 /\ isOpen(redisClient)
         THEN /\ initCall' = [initCall EXCEPT ![c].redis = redisClient,
                                              ![c].calls = @ + 1]
              /\ UNCHANGED <<redisClient, redisClients>>
         ELSE /\ \E k \in ClientIds : redisClients[k] = "none"
              /\ LET k == CHOOSE x \in ClientIds :
                             /\ redisClients[x] = "none"
                             /\ \A y \in ClientIds : redisClients[y] = "none" => x <= y
                 IN /\ redisClients' = [redisClients EXCEPT ![k] = "connecting"]
                    /\ redisClient' = k
                    /\ initCall' = [initCall EXCEPT ![c] =
                                      [pc |-> "connect", client |-> k, redis |-> 0,
                                       calls |-> initCall[c].calls + 1]]

\* await redisClient.connect() resolves: the module variable is returned.
Connected(c) ==
    /\ initCall[c].pc = "connect"
    /\ redisClients[initCall[c].client] = "connecting"
    /\ redisClients' = [redisClients EXCEPT ![initCall[c].client] = "ready"]
    /\ initCall' = [initCall EXCEPT ![c].pc = "idle", ![c].client = 0,
                                    ![c].redis = redisClient]
    /\ UNCHANGED redisClient

\* connect() rejects after the reconnectStrategy gave up: the catch block
\* sets redisClient to null and returns null.
ConnectFails(c) ==
    /\ initCall[c].pc = "connect"
    /\ redisClients[initCall[c].client] = "connecting"
    /\ redisClients' = [redisClients EXCEPT ![initCall[c].client] = "closed"]
    /\ redisClient' = 0
    /\ initCall' = [initCall EXCEPT ![c].pc = "idle", ![c].client = 0,
                                    ![c].redis = 0]

\* The messages of the 'error' events of a socket that is lost.
ErrorMessages == {"Socket closed unexpectedly", "read ECONNRESET"}

\* err.message.includes('closed')
IncludesClosed(message) == message = "Socket closed unexpectedly"

\* The connection of a ready client is lost: the client emits 'error' and,
\* the reconnectStrategy returning a delay, reconnects.  The handler sets
\* redisClient to null when the message includes 'closed'.
SocketError(k, message) ==
    /\ redisClients[k] = "ready"
    /\ redisClients' = [redisClients EXCEPT ![k] = "reconnecting"]
    /\ redisClient' = IF IncludesClosed(message) THEN 0 ELSE redisClient
    /\ UNCHANGED initCall

\* A reconnecting client is connected again.
Reconnected(k) ==
    /\ redisClients[k] = "reconnecting"
    /\ redisClients' = [redisClients EXCEPT ![k] = "ready"]
    /\ UNCHANGED <<redisClient, initCall>>

\* After more than 10 retries the reconnectStrategy returns an Error and
\* the client closes; when it emits 'end' the handler sets redisClient to
\* null.
GiveUp(k, end) ==
    /\ redisClients[k] = "reconnecting"
    /\ redisClients' = [redisClients EXCEPT ![k] = "closed"]
    /\ redisClient' = IF end THEN 0 ELSE redisClient
    /\ UNCHANGED initCall

\* ------------------------------------------------------------ specifications
\* No function call of the function scenarios has been made.
NoCall == [fn |-> "none"]

\* A caller of the queue scenario that has not called getQueuedJob yet.
NotCalled == [job_id |-> NoId, met |-> 0 - 1]

Init ==
    /\ jobHash = [j \in JobIds |-> NoData]
    /\ jobsList = <<>>
    /\ queue = <<>>
    /\ redisUp = TRUE
    /\ nextId = 1
    /\ req = [r \in Requests |-> IdleReq(0)]
    /\ sched = IdleSched
    /\ activeJobs = [x \in {} |-> [isResolved |-> FALSE]]
    /\ pipe = [p \in Pipes |-> IdlePipe]
    /\ got = [c \in Claimers |-> NotCalled]
    /\ enqLog = <<>>
    /\ claimLog = <<>>
    /\ cancelledQueued = {}
    /\ NoClients
    /\ call = NoCall
    /\ ret = NoCall

\* One concurrent caller of getQueuedJob (the queue scenario); the history
\* keeps what it returned, the queue length it met and the order of the claims.
\* The callers are alike and Redis serves one RPOP at a time, so they are
\* numbered in the order their commands reach Redis.
ClaimerGetQueuedJob(c) ==
    /\ got[c] = NotCalled
    /\ IF c = 1 THEN TRUE ELSE got[c - 1] # NotCalled
    /\ redisUp
    /\ LET popped == getQueuedJob(queue) IN
         /\ queue' = popped.rest
         /\ got' = [got EXCEPT ![c] = [job_id |-> popped.job_id,
                                       met |-> Len(queue)]]
         /\ claimLog' = IF popped.job_id = NoId THEN claimLog
                        ELSE Append(claimLog, popped.job_id)
    /\ UNCHANGED <<jobHash, jobsList, redisUp, apiVars, workerVars, enqLog,
                   cancelledQueued, callVars, clientVars>>

\* History of the API steps: the ids pushed on the queue, in order, and the
\* ids whose cancelJob found the job queued and wrote the status; a requeue
\* lifts that note.
NoteEnqueued(r) ==
    /\ enqLog' = Append(enqLog, req[r].job_id)
    /\ UNCHANGED <<got, claimLog, cancelledQueued, callVars, clientVars>>

NoteCancelled(r) ==
    /\ cancelledQueued' = IF req[r].job.status = "queued"
                            THEN cancelledQueued \cup {req[r].job_id}
                            ELSE cancelledQueued
    /\ UNCHANGED <<got, enqLog, claimLog, callVars, clientVars>>

NoteRequeued(job_id) ==
    /\ cancelledQueued' = cancelledQueued \ {job_id}
    /\ UNCHANGED <<got, enqLog, claimLog, callVars, clientVars>>

\* The request body of the route's defaults, for max_ads = MaxAds.
DefaultJob ==
    [max_ads |-> MaxAds, save_json |-> TRUE, save_db |-> TRUE,
     auto_analyze |-> TRUE, page_id |-> "pg"]

\* The calls of the API process, one Redis command a step; `clients` are the
\* requests that may be in progress, `specs` the request bodies submitted and
\* `budget` the number of cancel, requeue and delete calls a client makes.
ApiCreate(clients, specs) ==
    \/ \E r \in clients, jobData \in specs :
         CreateJobHSet(r, jobData) /\ UNCHANGED auxVars
    \/ \E r \in clients : CreateJobLPushJobs(r) /\ UNCHANGED auxVars
    \/ \E r \in clients : CreateJobLPushQueue(r) /\ NoteEnqueued(r)

ApiCancel(budget) ==
    \/ \E r \in Requests, job_id \in JobIds :
         req[r].calls < budget /\ CancelJobRead(r, job_id) /\ UNCHANGED auxVars
    \/ \E r \in Requests : CancelJobHSet(r) /\ NoteCancelled(r)
    \/ \E r \in Requests : CancelJobLRem(r) /\ UNCHANGED auxVars

ApiRequeue(clients, budget) ==
    \/ \E r \in clients, job_id \in JobIds :
         req[r].calls < budget /\ RequeueJobRead(r, job_id) /\ NoteRequeued(job_id)
    \/ \E r \in clients : RequeueJobHSet(r) /\ NoteRequeued(req[r].job_id)
    \/ \E r \in clients : RequeueJobLPush(r) /\ NoteEnqueued(r)

ApiDelete(budget) ==
    \/ \E r \in Requests, job_id \in JobIds :
         req[r].calls < budget /\ DeleteJobDel(r, job_id) /\ UNCHANGED auxVars
    \/ \E r \in Requests : DeleteJobLRemJobs(r) /\ UNCHANGED auxVars
    \/ \E r \in Requests : DeleteJobLRemQueue(r) /\ UNCHANGED auxVars

\* An outage of Redis and what it does to a request in progress.
Outage ==
    \/ RedisDown /\ UNCHANGED auxVars
    \/ RedisBack /\ UNCHANGED auxVars
    \/ \E r \in Requests : ReqThrows(r) /\ UNCHANGED auxVars

\* run(): one step of the worker's loop.
Scheduler ==
    \/ SchedTick /\ UNCHANGED auxVars
    \/ SchedClaim /\ UNCHANGED auxVars
    \/ SchedGetJob /\ UNCHANGED auxVars
    \/ SchedSetRunningRead /\ UNCHANGED auxVars
    \/ SchedSetRunningWrite /\ UNCHANGED auxVars
    \/ SchedProcessJob /\ UNCHANGED auxVars

\* A pipeline whose provider rejects the run: scraper.scrape throws in the
\* actor call, the job is marked failed and the slot released.
RejectedPipeline ==
    \/ \E p \in Pipes : ScrapeStart(p) /\ UNCHANGED auxVars
    \/ \E p \in Pipes : ScrapeActorCall(p, {"usage limit"}) /\ UNCHANGED auxVars
    \/ \E p \in Pipes : PipeCallbackWrite(p) /\ UNCHANGED auxVars
    \/ \E p \in Pipes : ScrapeFailedRead(p) /\ UNCHANGED auxVars
    \/ \E p \in Pipes : ScrapeFailedWrite(p) /\ UNCHANGED auxVars
    \/ \E p \in Pipes : Finally(p) /\ UNCHANGED auxVars

\* A pipeline with every outcome of its external calls.
Pipeline ==
    \/ \E p \in Pipes : ScrapeStart(p) /\ UNCHANGED auxVars
    \/ \E p \in Pipes : ScrapeActorCall(p, ActorOutcomes) /\ UNCHANGED auxVars
    \/ \E p \in Pipes : ScrapePoll(p) /\ UNCHANGED auxVars
    \/ \E p \in Pipes : ScrapeListItems(p, MaxItems) /\ UNCHANGED auxVars
    \/ \E p \in Pipes : PipeCallbackWrite(p) /\ UNCHANGED auxVars
    \/ \E p \in Pipes : ScrapeFailedRead(p) /\ UNCHANGED auxVars
    \/ \E p \in Pipes : ScrapeFailedWrite(p) /\ UNCHANGED auxVars
    \/ \E p \in Pipes : ProgressScrapedRead(p) /\ UNCHANGED auxVars
    \/ \E p \in Pipes : ProgressScrapedWrite(p) /\ UNCHANGED auxVars
    \/ \E p \in Pipes : AnalyzeAd(p) /\ UNCHANGED auxVars
    \/ \E p \in Pipes : SaveJson(p) /\ UNCHANGED auxVars
    \/ \E p \in Pipes : SaveDbBrand(p) /\ UNCHANGED auxVars
    \/ \E p \in Pipes : SaveDbItem(p) /\ UNCHANGED auxVars
    \/ \E p \in Pipes : ProgressSavedRead(p) /\ UNCHANGED auxVars
    \/ \E p \in Pipes : ProgressSavedWrite(p) /\ UNCHANGED auxVars
    \/ \E p \in Pipes : CompleteGetJob(p) /\ UNCHANGED auxVars
    \/ \E p \in Pipes : CompleteRead(p) /\ UNCHANGED auxVars
    \/ \E p \in Pipes : CompleteWrite(p) /\ UNCHANGED auxVars
    \/ \E p \in Pipes : SideEffects(p) /\ UNCHANGED auxVars
    \/ \E p \in Pipes : CatchRead(p) /\ UNCHANGED auxVars
    \/ \E p \in Pipes : CatchWrite(p) /\ UNCHANGED auxVars
    \/ \E p \in Pipes : Finally(p) /\ UNCHANGED auxVars

\* The system under administration: API calls of every kind beside the
\* worker's loop, with a scrape provider that rejects every run.
Next ==
    \/ ApiCreate(Requests, {DefaultJob})
    \/ ApiCancel(MaxCalls)
    \/ ApiRequeue(Requests, MaxCalls)
    \/ ApiDelete(MaxCalls)
    \/ Scheduler
    \/ RejectedPipeline

Spec == Init /\ [][Next]_vars

\* One job through the whole pipeline: a single submission, the worker's loop,
\* every outcome of the external calls, outages of Redis.
InitSingle ==
    /\ jobHash = [j \in JobIds |-> NoData]
    /\ jobsList = <<>>
    /\ queue = <<>>
    /\ redisUp = TRUE
    /\ nextId = NumJobs
    /\ req = [r \in Requests |-> IdleReq(0)]
    /\ sched = IdleSched
    /\ activeJobs = [x \in {} |-> [isResolved |-> FALSE]]
    /\ pipe = [p \in Pipes |-> IdlePipe]
    /\ got = [c \in Claimers |-> NotCalled]
    /\ enqLog = <<>>
    /\ claimLog = <<>>
    /\ cancelledQueued = {}
    /\ NoClients
    /\ call = NoCall
    /\ ret = NoCall

NextPipeline ==
    \/ ApiCreate(Requests, JobSpecs)
    \/ Scheduler
    \/ Pipeline
    \/ Outage

SpecPipeline == InitSingle /\ [][NextPipeline]_vars

\* One undisturbed run: a single submission whose scrape is accepted and
\* returns up to MaxRunItems items, with every outcome of the analysis, the
\* JSON file and the database; Redis stays reachable. The job is submitted
\* with max_ads = MaxAds, with or without the database step.
FullRun ==
    \/ \E p \in Pipes : ScrapeStart(p) /\ UNCHANGED auxVars
    \/ \E p \in Pipes : ScrapeActorCall(p, {"started"}) /\ UNCHANGED auxVars
    \/ \E p \in Pipes : ScrapePoll(p) /\ UNCHANGED auxVars
    \/ \E p \in Pipes : ScrapeListItems(p, MaxRunItems) /\ UNCHANGED auxVars
    \/ \E p \in Pipes : PipeCallbackWrite(p) /\ UNCHANGED auxVars
    \/ \E p \in Pipes : ScrapeFailedRead(p) /\ UNCHANGED auxVars
    \/ \E p \in Pipes : ScrapeFailedWrite(p) /\ UNCHANGED auxVars
    \/ \E p \in Pipes : ProgressScrapedRead(p) /\ UNCHANGED auxVars
    \/ \E p \in Pipes : ProgressScrapedWrite(p) /\ UNCHANGED auxVars
    \/ \E p \in Pipes : AnalyzeAd(p) /\ UNCHANGED auxVars
    \/ \E p \in Pipes : AnalyzeProgressRead(p) /\ UNCHANGED auxVars
    \/ \E p \in Pipes : AnalyzeProgressWrite(p) /\ UNCHANGED auxVars
    \/ \E p \in Pipes : SaveJson(p) /\ UNCHANGED auxVars
    \/ \E p \in Pipes : SaveDbBrand(p) /\ UNCHANGED auxVars
    \/ \E p \in Pipes : SaveDbItem(p) /\ UNCHANGED auxVars
    \/ \E p \in Pipes : ProgressSavedRead(p) /\ UNCHANGED auxVars
    \/ \E p \in Pipes : ProgressSavedWrite(p) /\ UNCHANGED auxVars
    \/ \E p \in Pipes : CompleteGetJob(p) /\ UNCHANGED auxVars
    \/ \E p \in Pipes : CompleteRead(p) /\ UNCHANGED auxVars
    \/ \E p \in Pipes : CompleteWrite(p) /\ UNCHANGED auxVars
    \/ \E p \in Pipes : SideEffects(p) /\ UNCHANGED auxVars
    \/ \E p \in Pipes : CatchRead(p) /\ UNCHANGED auxVars
    \/ \E p \in Pipes : CatchWrite(p) /\ UNCHANGED auxVars
    \/ \E p \in Pipes : Finally(p) /\ UNCHANGED auxVars

NextRun ==
    \/ ApiCreate({1}, {jobData \in JobSpecs : jobData.max_ads = MaxAds})
    \/ Scheduler
    \/ FullRun

SpecRun == InitSingle /\ [][NextRun]_vars

\* One administered job: a single submission that the client cancels and
\* requeues beside the worker's loop; the provider rejects every run, so the
\* job fails each time it is executed.
NextAdmin ==
    \/ ApiCreate(Requests, {DefaultJob})
    \/ ApiCancel(MaxAdminCalls)
    \/ ApiRequeue(Requests, MaxAdminCalls)
    \/ Scheduler
    \/ RejectedPipeline

SpecAdmin == InitSingle /\ [][NextAdmin]_vars

\* The queue scenario: jobs are created and requeued while several callers
\* claim concurrently; Redis stays reachable. The producer is one API
\* request at a time; no pipeline runs here, so the request bodies differ in
\* max_ads only.
NextQueue ==
    \/ ApiCreate({1}, {jobData \in JobSpecs : jobData.save_db})
    \/ ApiRequeue({1}, MaxCalls)
    \/ \E c \in Claimers : ClaimerGetQueuedJob(c)

SpecQueue == Init /\ [][NextQueue]_vars

\* The listing scenario: a store that holds up to MaxStored jobs, created one
\* after the other (ids number them in creation order) and left in any
\* status by earlier runs, and one administrator who lists, counts and clears
\* them, one call at a time, while the worker is stopped.
Statuses == {"queued", "running", "completed", "failed", "cancelled"}

\* A job as the store keeps it in the given status, n ads into its run.
StoredJob(job_id, status, n) ==
    LET job == AssignProgress(NewJob(job_id, DefaultJob),
                              [scraped |-> n, analyzed |-> n, inserted |-> n])
    IN CASE status = "queued" -> NewJob(job_id, DefaultJob)
         [] status = "running" -> AssignRunning(job)
         [] status = "completed" ->
              AssignCompleted(AssignRunning(job),
                [ads_scraped |-> n, ads_analyzed |-> n, ads_inserted |-> n])
         [] status = "failed" -> AssignFailed(AssignRunning(job), "No ads found")
         [] status = "cancelled" -> AssignCancelled(job)

InitListing ==
    /\ \E k \in 0..MaxStored :
       \E status \in [1..k -> Statuses], n \in [1..k -> 0..1] :
         /\ \A j \in 1..k : /\ status[j] = "completed" => n[j] = 1
                            /\ n[j] = 1 => status[j] \in {"running", "completed"}
         /\ jobHash = [j \in StoredIds |->
                         IF j <= k
                           THEN JSONstringify(StoredJob(j, status[j], n[j]))
                           ELSE NoData]
         /\ jobsList = [i \in 1..k |-> k + 1 - i]
         /\ queue = SelectSeq([i \in 1..k |-> k + 1 - i],
                              LAMBDA j : status[j] = "queued")
         /\ nextId = k + 1
    /\ redisUp = TRUE
    /\ req = [r \in Requests |-> IdleReq(0)]
    /\ sched = IdleSched
    /\ activeJobs = [x \in {} |-> [isResolved |-> FALSE]]
    /\ pipe = [p \in Pipes |-> IdlePipe]
    /\ got = [c \in Claimers |-> NotCalled]
    /\ enqLog = <<>>
    /\ claimLog = <<>>
    /\ cancelledQueued = {}
    /\ NoClients
    /\ call = NoCall
    /\ ret = NoCall

\* GET /api/jobs?limit=...: getAllJobs(limit)
GetAllJobs(limit) ==
    /\ redisUp
    /\ call' = [fn |-> "getAllJobs", limit |-> limit]
    /\ ret' = [fn |-> "getAllJobs",
               jobs |-> getAllJobs(jobHash, jobsList, limit)]
    /\ UNCHANGED <<storeVars, redisUp, apiVars, workerVars, histVars, clientVars>>

GetStats ==
    /\ redisUp
    /\ call' = [fn |-> "getStats"]
    /\ ret' = [fn |-> "getStats", stats |-> getStats(jobHash, jobsList)]
    /\ UNCHANGED <<storeVars, redisUp, apiVars, workerVars, histVars, clientVars>>

\* clearCompleted / clearFailed / clearCancelled, the whole loop.
Clear(status) ==
    /\ redisUp
    /\ LET st == clearJobs(jobHash, jobsList, status) IN
         /\ jobHash' = st.hash
         /\ jobsList' = st.list
         /\ ret' = [fn |-> "clear", count |-> st.count]
    /\ call' = [fn |-> "clear", status |-> status]
    /\ UNCHANGED <<queue, redisUp, apiVars, workerVars, histVars, clientVars>>

ClearCompleted == Clear("completed")

ClearFailed == Clear("failed")

ClearCancelled == Clear("cancelled")

NextListing ==
    \/ \E limit \in 1..MaxStored : GetAllJobs(limit)
    \/ GetStats
    \/ ClearCompleted
    \/ ClearFailed
    \/ ClearCancelled

SpecListing == InitListing /\ [][NextListing]_vars

\* The validator scenario: one call of validateHook on a transcript and a
\* candidate hook drawn from the sets below; the job system is at rest.
AtRest ==
    /\ jobHash = [j \in JobIds |-> NoData]
    /\ jobsList = <<>>
    /\ queue = <<>>
    /\ redisUp = TRUE
    /\ nextId = 1
    /\ req = [r \in Requests |-> IdleReq(0)]
    /\ sched = IdleSched
    /\ activeJobs = [x \in {} |-> [isResolved |-> FALSE]]
    /\ pipe = [p \in Pipes |-> IdlePipe]
    /\ got = [c \in Claimers |-> NotCalled]
    /\ enqLog = <<>>
    /\ claimLog = <<>>
    /\ cancelledQueued = {}
    /\ NoClients

\* Word i of a transcript: one letter, all different, all the same, or the
\* first four in upper case.
Word(i, style) ==
    CASE style = "same" -> <<"a">>
      [] style = "upper" /\ i <= 4 -> <<Alphabet[26 + i]>>
      [] OTHER -> <<Alphabet[i]>>

\* Words i..n, word `stop` followed by the punctuation mark, sep in between.
RECURSIVE Spoken(_, _, _, _, _, _)
Spoken(i, n, style, stop, mark, sep) ==
    IF i > n THEN <<>>
    ELSE LET word == IF i = stop THEN Word(i, style) \o <<mark>>
                     ELSE Word(i, style)
         IN IF i = n THEN word
            ELSE word \o sep \o Spoken(i + 1, n, style, stop, mark, sep)

\* The raw transcripts: null, and 0..MaxWords words, with single spaces or
\* with the doubled and surrounding whitespace of joined Whisper segments.
Transcripts ==
    {NullText} \cup
    {Spoken(1, n, style, stop, mark, <<" ">>) :
       n \in 0..MaxWords, style \in {"distinct", "same", "upper"},
       stop \in {0, 1, 4, 5, 12, 25, 26}, mark \in {".", "!", "?"}} \cup
    {<<" ">> \o Spoken(1, n, style, stop, ".", <<" ", "\n">>) \o <<" ">> :
       n \in 0..MaxWords, style \in {"distinct", "upper"},
       stop \in {0, 1, 4, 5, 12, 25, 26}}

\* The candidate hooks tried on a transcript: none, blank, unrelated text,
\* and pieces of the transcript, exact, in lower case or altered.
Hooks(transcript) ==
    LET words == split(clean(transcript)) IN
      {NullText, <<>>, <<" ">>, <<"#">>, <<"#", "#", " ", "#">>,
       <<"#", " ", "a", " ", "#">>} \cup
      (IF clean(transcript) = <<>> THEN {}
       ELSE {firstNWords(transcript, 10),
             toLowerCase(firstNWords(transcript, 10)),
             firstNWords(transcript, 3),
             firstNWords(transcript, 10) \o <<"#">>,
             join(SubSeq(words, IF Len(words) >= 22 THEN 20 ELSE 1,
                         IF Len(words) >= 22 THEN 22 ELSE 1))})

InitHook ==
    /\ AtRest
    /\ \E transcript \in Transcripts : \E gptHook \in Hooks(transcript) :
         call = [fn |-> "validateHook", gptHook |-> gptHook,
                 transcript |-> transcript]
    /\ ret = NoCall

ValidateHook ==
    /\ call.fn = "validateHook"
    /\ ret = NoCall
    /\ LET validated == validateHook(call.gptHook, call.transcript) IN
         ret' = [fn |-> "validateHook", hook |-> validated.hook,
                 source |-> validated.source, score |-> validated.score]
    /\ UNCHANGED <<storeVars, redisUp, apiVars, workerVars, histVars, clientVars, call>>

NextHook == ValidateHook

SpecHook == InitHook /\ [][NextHook]_vars

\* The speech scenario: one video whose recording Whisper has cut into
\* segments; _analyzeVideo transcribes it and judges the transcript.
\* Word i of a recording: one letter, `len` times.
Filler(i, len) == [k \in 1..len |-> Lowercase[i]]

Upper(c) ==
    IF \E i \in 1..Len(Lowercase) : Lowercase[i] = c
      THEN Uppercase[CHOOSE i \in 1..Len(Lowercase) : Lowercase[i] = c]
      ELSE c

toUpperCase(text) == [k \in 1..Len(text) |-> Upper(text[k])]

\* The words of a phrase, `times` times over.
Repeated(phrase, times) ==
    [i \in 1..(times * Len(phrase)) |-> phrase[((i - 1) % Len(phrase)) + 1]]

\* Phrases of six words: short words, long words, a word twice, a listed
\* phrase among the words, and a number among the words.
Refrains ==
    {[i \in 1..6 |-> Filler(i, 2)],
     [i \in 1..6 |-> Filler(i, 5)],
     [i \in 1..6 |-> Filler(IF i = 6 THEN 1 ELSE i, 5)],
     <<Filler(1, 5), Filler(2, 5), Filler(3, 5),
       <<"s", "i", "g", "n">>, <<"u", "p">>, <<"n", "o", "w">>>>,
     <<Filler(1, 5), Filler(2, 5), Filler(3, 5), Filler(4, 5), Filler(5, 5),
       <<"1", "2", "3", "4", "5", "6">>>>,
     <<<<"1", "2">>, Filler(2, 5), Filler(3, 5), Filler(4, 5), Filler(5, 5),
       Filler(6, 5)>>}

\* What is said: n words, all different or six words over and over, and
\* around them nothing, a boilerplate phrase (as listed, in upper case or
\* inside a longer word) or numbers; and the refrains, two to four times.
Sayings ==
    LET plain == {[i \in 1..n |-> Filler(i, len)] :
                    n \in 13..MaxSpoken, len \in {2, 5}}
        lyrics == {[i \in 1..n |-> Filler(((i - 1) % 6) + 1, len)] :
                     n \in 13..MaxSpoken, len \in {5}}
        phrases == {GarbagePhrases[k] : k \in 1..Len(GarbagePhrases)}
        extras == phrases
                  \cup {toUpperCase(phrase) : phrase \in phrases}
                  \cup {<<"x">> \o phrase \o <<"x">> : phrase \in phrases}
                  \cup {<<"1", "2", "3">>, <<"1", "2", "3", "4", "5", "6">>}
    IN plain \cup lyrics
       \cup {Repeated(phrase, times) : phrase \in Refrains, times \in 2..4}
       \cup {words \o <<extra>> : words \in plain, extra \in extras}
       \cup {<<extra>> \o words : words \in plain,
                                  extra \in {<<"1", "2">>, GarbagePhrases[3]}}

\* The words in segments of `size` words; Whisper starts each text with a
\* space.
RECURSIVE Chunks(_, _, _)
Chunks(words, size, prob) ==
    IF words = <<>> THEN <<>>
    ELSE LET n == IF size < Len(words) THEN size ELSE Len(words) IN
           <<[no_speech_prob |-> prob,
              text |-> <<" ">> \o join(SubSeq(words, 1, n))]>>
           \o Chunks(SubSeq(words, n + 1, Len(words)), size, prob)

\* The segment lists of a recording: one clear segment, clear segments of
\* two words, the same after a segment of music, one clear segment after
\* three of music, and noise throughout.
Recordings(words) ==
    {<<>>,
     Chunks(words, Len(words), 10),
     Chunks(words, 2, 10),
     <<[no_speech_prob |-> 80, text |-> <<" ", "l", "a">>]>>
       \o Chunks(words, 2, 3),
     [k \in 1..3 |-> [no_speech_prob |-> 90, text |-> <<" ", "l", "a">>]]
       \o Chunks(words, Len(words), 10),
     Chunks(words, Len(words), 60),
     Chunks(words, Len(words), 80)}

InitSpeech ==
    /\ AtRest
    /\ \E words \in Sayings : \E segments \in Recordings(words) :
         call = [fn |-> "analyzeVideo", segments |-> segments]
    /\ ret = NoCall

\* What the chat completion about a transcript comes to: the call throws,
\* its content is not JSON, the analysis has no hook, or it has a hook with
\* no text, with the first words of the transcript or with other words.
Completions(transcript) ==
    {[kind |-> "throws", hook |-> NullText],
     [kind |-> "unparsable", hook |-> NullText],
     [kind |-> "no_hook", hook |-> NullText],
     [kind |-> "hook", hook |-> <<>>],
     [kind |-> "hook", hook |-> firstNWords(transcript, 3)],
     [kind |-> "hook", hook |-> <<"z", "z", " ", "z", "z">>]}

\* The return value of _analyzeVideo when the function returns null.
NoAnalysis ==
    [analysis_mode |-> "none", hook |-> NullText, full_transcript |-> NullText,
     rejected_reason |-> Nil]

\* The return value for a rejected transcript.
NoTranscript(trimmedTranscript, reason) ==
    [analysis_mode |-> "video_no_transcript", hook |-> NullText,
     full_transcript |-> IF trimmedTranscript = <<>> THEN NullText
                         ELSE trimmedTranscript,
     rejected_reason |-> reason]

\* The return value after the completion: the hook of the analysis, if it
\* has one, is replaced by the validated hook.
Analysed(transcript, completion) ==
    IF completion.kind \in {"throws", "unparsable"} THEN NoAnalysis
    ELSE [analysis_mode |-> "video_transcript",
          hook |-> IF completion.kind = "hook"
                     THEN validateHook(completion.hook, transcript).hook
                     ELSE NullText,
          full_transcript |-> transcript,
          rejected_reason |-> Nil]

\* _analyzeVideo of a video with a URL: the transcription, the checks on the
\* transcript and, for a valid transcript, the completion and the validation
\* of its hook.  `generated` tells whether the completion was asked for.
AnalyzeVideo ==
    /\ call.fn = "analyzeVideo"
    /\ ret = NoCall
    /\ LET transcript == transcribeAudio(call.segments)
           trimmedTranscript == IF transcript = NullText THEN <<>>
                                ELSE trim(transcript)
           reason == rejectedReason(transcript)
       IN IF reason # Nil
            THEN ret' = [fn |-> "analyzeVideo", transcript |-> transcript,
                         rejected_reason |-> reason, generated |-> FALSE,
                         analysis |-> NoTranscript(trimmedTranscript, reason)]
            ELSE \E completion \in Completions(transcript) :
                   ret' = [fn |-> "analyzeVideo", transcript |-> transcript,
                           rejected_reason |-> reason, generated |-> TRUE,
                           analysis |-> Analysed(transcript, completion)]
    /\ UNCHANGED <<storeVars, redisUp, apiVars, workerVars, histVars, clientVars, call>>

NextSpeech == AnalyzeVideo

SpecSpeech == InitSpeech /\ [][NextSpeech]_vars


\* The client scenario: callers of JobManager.init() share the client of
\* redis.js while connections are made, lost and given up.
InitClient == AtRest /\ call = NoCall /\ ret = NoCall

ClientStep(A) ==
    /\ A
    /\ UNCHANGED <<storeVars, redisUp, apiVars, workerVars, histVars, callVars>>

NextClient ==
    \/ \E c \in Callers : ClientStep(GetRedisClient(c))
    \/ \E c \in Callers : ClientStep(Connected(c))
    \/ \E c \in Callers : ClientStep(ConnectFails(c))
    \/ \E k \in ClientIds : \E message \in ErrorMessages :
         ClientStep(SocketError(k, message))
    \/ \E k \in ClientIds : ClientStep(Reconnected(k))
    \/ \E k \in ClientIds : \E end \in BOOLEAN : ClientStep(GiveUp(k, end))

SpecClient == InitClient /\ [][NextClient]_vars

\* The claim scenario: one submitted job, the worker's loop, a provider that
\* rejects the run, and outages of Redis.
NextClaim ==
    \/ ApiCreate(Requests, {DefaultJob})
    \/ Scheduler
    \/ RejectedPipeline
    \/ Outage

SpecClaim == InitSingle /\ [][NextClaim]_vars

\* The loop of run() keeps running and every step of a pipeline returns.
SpecClaimFair == SpecClaim /\ WF_vars(Scheduler) /\ WF_vars(RejectedPipeline)

\* ------------------------------------------------------------------- claims
\* The pipelines in execution: _processJob calls that have not returned.
Executing == {p \in Pipes : pipe[p].pc # "idle"}

\* C1: at every moment the number of pipelines in execution is at most
\* MAX_WORKERS, whatever API calls interleave with the worker's loop.
C1_AtMostMaxWorkers == Cardinality(Executing) <= MAX_WORKERS

StatusIn(hash, job_id) ==
    IF hash[job_id] = NoData THEN Nil ELSE getJob(hash, job_id).status

\* The status changes the specification allows.
AllowedStatusChange(old, new) ==
    \/ old = new
    \/ old = "queued" /\ new = "running"
    \/ old = "running" /\ new \in {"completed", "failed"}
    \/ old \in {"queued", "running"} /\ new = "cancelled"

\* The status write of an explicit requeueJob(job_id).
RequeueWrites(job_id) ==
    \E r \in Requests : /\ req[r].op = "requeue" /\ req[r].pc = "hset"
                        /\ req[r].job_id = job_id
                        /\ req'[r].pc = "lpush_queue"

\* C2: the status of a stored job changes only along queued -> running,
\* running -> completed or failed, queued or running -> cancelled; the single
\* exception is the write of an explicit requeueJob.
C2_StatusMachine ==
    [][\A j \in JobIds :
         (jobHash[j] # NoData /\ jobHash'[j] # NoData /\ ~RequeueWrites(j))
           => AllowedStatusChange(StatusIn(jobHash, j), StatusIn(jobHash', j))]_vars

\* The callers of the queue scenario that were handed job_id.
Holders(job_id) == {c \in Claimers : got[c].job_id = job_id}

\* C3: getQueuedJob never hands one queue entry to two callers: every entry
\* pushed is either still queued or held by exactly one caller, and a caller
\* gets null exactly when it met an empty queue.
C3_EachEntryClaimedOnce ==
    /\ \A j \in JobIds :
         Cardinality(Holders(j)) + Occurrences(queue, j) = Occurrences(enqLog, j)
    /\ \A c \in Claimers :
         got[c] # NotCalled => (got[c].job_id = NoId <=> got[c].met = 0)

\* Concurrent callers took two distinct ids, one each, and a further caller
\* got null.
C3_Witness ==
    \E c1, c2, c3 \in Claimers :
      /\ got[c1].job_id = 1 /\ got[c2].job_id = 2
      /\ got[c3] # NotCalled /\ got[c3].job_id = NoId
      /\ Holders(1) = {c1} /\ Holders(2) = {c2}

\* C4: with claims one at a time, ids are claimed in the order they were
\* enqueued: the ids pushed so far are the ids claimed so far, in that order,
\* followed by the queue read from its tail.
C4_Fifo == enqLog = claimLog \o Reverse(queue)

\* Two different jobs were claimed, the first enqueued first.
C4_Witness ==
    /\ Len(claimLog) >= 2
    /\ claimLog[1] # claimLog[2]
    /\ claimLog[1] = enqLog[1]

\* C5: a job id is in the work queue at most once.
C5_NoDuplicateInQueue == \A j \in JobIds : Occurrences(queue, j) <= 1

\* The ids whose cancelJob found the job queued and has returned.
CancelReturned ==
    {j \in cancelledQueued :
       \A r \in Requests : ~(req[r].op = "cancel" /\ req[r].job_id = j)}

\* C6: once cancelJob has cancelled a queued job, no pipeline starts for it.
C6_CancelledNeverStarts ==
    [][\A p \in Pipes :
         (pipe[p].pc = "idle" /\ pipe'[p].pc # "idle")
           => pipe'[p].job_id \notin CancelReturned]_vars

\* The step on which the execution of pipeline p ends.
Ends(p) == pipe[p].pc = "finally" /\ pipe'[p].pc = "idle"

\* C7: when a pipeline execution ends its job is completed or failed, never
\* still running, and after an exception that reached the catch block the job
\* is failed with the exception's message.
C7_EndedJobIsTerminal ==
    [][\A p \in Pipes :
         Ends(p) =>
           LET job == getJob(jobHash, pipe[p].job_id) IN
             /\ job # NullJob
             /\ job.status \in {"completed", "failed"}
             /\ pipe[p].caught => (job.status = "failed" /\ job.error = pipe[p].err)]_vars

\* C8: a claimed job occupies exactly one slot while its pipeline executes:
\* the id of every executing pipeline is a key of activeJobs and no two
\* executing pipelines share a key.
C8_OneSlotPerExecution ==
    /\ \A p \in Executing : pipe[p].job_id \in DOMAIN activeJobs
    /\ \A p, q \in Executing : p # q => pipe[p].job_id # pipe[q].job_id

\* C8, the release: every pipeline that executes eventually ends, and its
\* last step removes its id from activeJobs.
C8_SlotReleased ==
    /\ \A p \in Pipes : (pipe[p].pc # "idle") ~> (pipe[p].pc = "idle")
    /\ [][\A p \in Pipes : Ends(p) => pipe[p].job_id \notin DOMAIN activeJobs']_vars

\* Every external call and every Redis command of a pipeline returns or
\* throws: a pipeline step that stays possible is taken.
SpecPipelineFair == SpecPipeline /\ WF_vars(Pipeline)

\* C9: a run whose scrape threw or returned no items ends with its job failed
\* and an error message, "No ads found" and progress.scraped = 0 for no items,
\* and it ran no analysis, no persist step and no side effect.
C9_ScrapeFailureIsTerminal ==
    [][\A p \in Pipes :
         (Ends(p) /\ pipe[p].scrape \in {"threw", "empty"}) =>
           LET job == getJob(jobHash, pipe[p].job_id) IN
             /\ pipe[p].ran = {}
             /\ job # NullJob
             /\ job.status = "failed"
             /\ job.error # Nil
             /\ pipe[p].scrape = "empty" =>
                  (job.error = "No ads found" /\ job.progress.scraped = 0)]_vars

\* C9, the control flow alone: after a failed scrape no later step runs.
C9_NoStepAfterScrapeFailure ==
    \A p \in Pipes : pipe[p].scrape \in {"threw", "empty"} => pipe[p].ran = {}

\* C10: when createJob returns, getJob of the new id gives a record with
\* status queued, progress.total = max_ads and every other counter 0, result,
\* error, started_at and completed_at null, and the id is in the work queue.
C10_CreateThenGet ==
    [][\A r \in Requests :
         (req[r].op = "create" /\ req[r].pc = "lpush_queue" /\ req'[r].pc = "idle")
           => LET job == getJob(jobHash', req[r].job_id) IN
                /\ job # NullJob
                /\ job.status = "queued"
                /\ job.progress = [total |-> job.max_ads, scraped |-> 0,
                                   analyzed |-> 0, inserted |-> 0,
                                   pending |-> 0, failed |-> 0]
                /\ job.result = NullJob
                /\ job.error = Nil
                /\ job.started_at = Nil
                /\ job.completed_at = Nil
                /\ Occurrences(queue', req[r].job_id) >= 1]_vars

\* createJob has returned for job 1, submitted with max_ads = MaxAds.
C10_Witness ==
    /\ nextId > 1
    /\ \A r \in Requests : req[r].pc = "idle"
    /\ Occurrences(queue, 1) = 1
    /\ getJob(jobHash, 1).status = "queued"
    /\ getJob(jobHash, 1).progress.total = MaxAds

\* The step on which requeueJob of client r returns true.
RequeueReturns(r) ==
    req[r].op = "requeue" /\ req[r].pc = "lpush_queue" /\ req'[r].pc = "idle"

TerminalStatus == {"completed", "failed", "cancelled"}

\* C11: when requeueJob returns for a job it found completed, failed or
\* cancelled, the stored job has status queued, error null, every progress
\* counter 0 with total = max_ads, and its id is in the work queue exactly once.
C11_RequeueTerminal ==
    [][\A r \in Requests :
         (RequeueReturns(r) /\ req[r].job.status \in TerminalStatus)
           => LET job == getJob(jobHash', req[r].job_id) IN
                /\ job # NullJob
                /\ job.status = "queued"
                /\ job.error = Nil
                /\ job.progress = [total |-> job.max_ads, scraped |-> 0,
                                   analyzed |-> 0, inserted |-> 0,
                                   pending |-> 0, failed |-> 0]
                /\ Occurrences(queue', req[r].job_id) = 1]_vars

\* C12: requeueJob of a job it found queued, whose id is in the work queue,
\* leaves the contents of the work queue as they were.
C12_RequeueQueuedIsNoOp ==
    [][\A r \in Requests :
         (/\ RequeueReturns(r)
          /\ req[r].job.status = "queued"
          /\ Occurrences(queue, req[r].job_id) >= 1)
           => queue' = queue]_vars

\* The step on which the updateJob of cancelJob of client r writes.
CancelWrites(r) ==
    req[r].op = "cancel" /\ req[r].pc = "hset" /\ req'[r].pc = "lrem"

\* C13: cancelJob of a job it found running changes nothing: its write step
\* leaves the stored records and the work queue as they were.
C13_CancelRunningIsNoOp ==
    [][\A r \in Requests :
         (CancelWrites(r) /\ req[r].job.status = "running")
           => (jobHash' = jobHash /\ queue' = queue)]_vars

\* The step on which deleteJob of client r returns true.
DeleteReturns(r) ==
    req[r].op = "delete" /\ req[r].pc = "lrem_queue" /\ req'[r].pc = "idle"

\* C14: when deleteJob returns, getJob of the id gives null and the id occurs
\* neither in the jobs index nor in the work queue.
C14_DeletedIsGone ==
    [][\A r \in Requests :
         DeleteReturns(r)
           => /\ getJob(jobHash', req[r].job_id) = NullJob
              /\ Occurrences(jobsList', req[r].job_id) = 0
              /\ Occurrences(queue', req[r].job_id) = 0]_vars

\* The step on which analyzeAd throws for the current item of pipeline p.
AnalysisThrows(p) ==
    pipe[p].pc = "analyze" /\ pipe'[p].analysisErrors > pipe[p].analysisErrors

\* C15: an analysis call that throws does not abort the batch or the job: the
\* loop goes on with the next item, or with the step after the analysis when
\* it was the last one, and a run with analysis errors in which no other step
\* threw ends with its job completed.
C15_AnalysisErrorSkipped ==
    [][\A p \in Pipes :
         /\ AnalysisThrows(p) =>
               /\ ~pipe'[p].caught
               /\ IF pipe[p].i + 1 < pipe[p].ads
                    THEN pipe'[p].pc = "analyze" /\ pipe'[p].i = pipe[p].i + 1
                    ELSE pipe'[p].pc \in {"save_json", "save_db_brand",
                                          "progress_saved_read"}
         /\ (Ends(p) /\ pipe[p].analysisErrors > 0 /\ ~pipe[p].caught) =>
               getJob(jobHash, pipe[p].job_id).status = "completed"]_vars

\* A run in which two analysis calls threw and a later one succeeded has
\* written its job as completed.
C15_Witness ==
    \E p \in Pipes :
      /\ pipe[p].pc = "finally"
      /\ pipe[p].analysisErrors >= 2
      /\ pipe[p].analysed >= 1
      /\ getJob(jobHash, pipe[p].job_id).status = "completed"

\* C16: the JSON step is best-effort: whatever writeFile does, the pipeline
\* goes on with the database step (or the progress write that replaces it),
\* and a run that reached the JSON step ends with its job completed.
C16_SaveJsonBestEffort ==
    [][\A p \in Pipes :
         /\ pipe[p].pc = "save_json" =>
               pipe'[p].pc \in {"save_json", "save_db_brand", "progress_saved_read"}
         /\ (Ends(p) /\ "save_json" \in pipe[p].ran) =>
               getJob(jobHash, pipe[p].job_id).status = "completed"]_vars

\* The steps on which a progress update of the database step is stored: the
\* write of a callback of saveRawAdsBatch, and the write after the batch.
BatchProgressWrites(p) ==
    /\ pipe[p].cbq # <<>>
    /\ "inserted" \in DOMAIN Head(pipe[p].cbq).upd
    /\ pipe'[p].cbq = Tail(pipe[p].cbq)

FinalProgressWrites(p) ==
    /\ pipe[p].pc = "progress_saved_write"
    /\ "save_db" \in pipe[p].ran
    /\ pipe'[p].pc = "complete_get"

\* The step on which saveRawAd fails for the current item of pipeline p.
InsertFails(p) ==
    pipe[p].pc = "save_db_item" /\ pipe'[p].failed > pipe[p].failed

\* C17: in the database step a failed insert is counted and the batch goes on
\* with the next item; every progress record stored by the step has
\* inserted + failed + pending = number of scraped items, and the record
\* stored when the step ends has pending = 0 (also when the brand upsert
\* fails or the batch call throws).
C17_BatchCountsAddUp ==
    [][\A p \in Pipes :
         LET progress == getJob(jobHash', pipe[p].job_id).progress IN
           /\ InsertFails(p) =>
                 /\ pipe'[p].failed = pipe[p].failed + 1
                 /\ ~pipe'[p].caught
                 /\ IF pipe[p].i + 1 < pipe[p].ads
                      THEN pipe'[p].pc = "save_db_item"
                           /\ pipe'[p].i = pipe[p].i + 1
                      ELSE pipe'[p].pc = "progress_saved_read"
           /\ (BatchProgressWrites(p) \/ FinalProgressWrites(p)) =>
                 progress.inserted + progress.failed + progress.pending
                   = pipe[p].ads
           /\ FinalProgressWrites(p) => progress.pending = 0]_vars

\* The update after the fifth item, with an insert failure counted, is stored
\* and the write that ends the step is still to come.
C17_Witness ==
    \E p \in Pipes :
      /\ pipe[p].pc = "progress_saved_write"
      /\ pipe[p].cbq = <<>>
      /\ pipe[p].success >= 1
      /\ getJob(jobHash, pipe[p].job_id).progress.failed >= 1
      /\ getJob(jobHash, pipe[p].job_id).progress.inserted = pipe[p].success

\* The step on which pipeline p attempts the post-completion side effects.
AttemptsSideEffects(p) ==
    pipe[p].pc = "side_effects" /\ "side_effects" \in pipe'[p].ran

\* C18: the side effects are attempted only when the job is stored as
\* completed, has a page_id and at least one item was inserted, and a run
\* that attempted them ends with its job completed.
C18_SideEffectsAfterCompleted ==
    [][\A p \in Pipes :
         /\ AttemptsSideEffects(p) =>
               /\ StatusIn(jobHash, pipe[p].job_id) = "completed"
               /\ pipe[p].job.page_id # Nil
               /\ pipe[p].success > 0
         /\ (Ends(p) /\ "side_effects" \in pipe[p].ran) =>
               StatusIn(jobHash, pipe[p].job_id) = "completed"]_vars

\* The stored progress of job_id.
ProgressIn(hash, job_id) == getJob(hash, job_id).progress

\* C19: while a job is running, each stored state has scraped, analyzed,
\* inserted and failed at least as large as in the stored state before, and
\* every counter is at least 0.
C19_CountersMonotonic ==
    [][\A j \in JobIds :
         (StatusIn(jobHash, j) = "running" /\ jobHash'[j] # NoData) =>
           /\ \A c \in {"scraped", "analyzed", "inserted", "failed"} :
                ProgressIn(jobHash', j)[c] >= ProgressIn(jobHash, j)[c]
           /\ \A c \in DOMAIN ProgressIn(jobHash', j) :
                ProgressIn(jobHash', j)[c] >= 0]_vars

\* The step on which the JobManager call of client r ends while Redis is
\* unreachable: its next command was rejected and the exception left the call.
CallThrows(r) ==
    ~redisUp /\ req[r].pc # "idle" /\ req'[r].pc = "idle"

\* The stored state differs from the initial, empty one.
StoreChanged ==
    \/ \E j \in JobIds : jobHash[j] # NoData
    \/ jobsList # <<>>
    \/ queue # <<>>

\* C20: with Redis unreachable no JobManager call ends by throwing, and a
\* createJob that did not return a job has left nothing in the store.
C20_NegativeResultNoThrow ==
    [][\A r \in Requests :
         /\ ~CallThrows(r)
         /\ (CallThrows(r) /\ req[r].op = "create") => ~StoreChanged]_vars

\* The jobs the store holds: ids with a record.
Stored(hash) == {j \in DOMAIN hash : getJob(hash, j) # NullJob}

\* The ids of a sequence of jobs, in order.
IdsOf(jobs) == [k \in 1..Len(jobs) |-> jobs[k].job_id]

\* The n most recently created of the stored jobs.
MostRecent(hash, n) ==
    {j \in Stored(hash) : Cardinality({i \in Stored(hash) : i > j}) < n}

\* C21: getAllJobs(limit) returns the `limit` most recently created jobs,
\* and of any two returned jobs the one created later comes first.
C21_MostRecentFirst ==
    ret.fn = "getAllJobs" =>
      LET ids == IdsOf(ret.jobs) IN
        /\ \A a, b \in 1..Len(ids) : a < b => ids[a] > ids[b]
        /\ {ids[k] : k \in 1..Len(ids)} = MostRecent(jobHash, call.limit)

\* The half of C21 the code keeps: which jobs are returned.
C21_LimitMostRecent ==
    ret.fn = "getAllJobs" =>
      LET ids == IdsOf(ret.jobs) IN
        /\ Len(ids) = Cardinality(MostRecent(jobHash, call.limit))
        /\ {ids[k] : k \in 1..Len(ids)} = MostRecent(jobHash, call.limit)

\* The sum of f over the jobs of a set of ids.
RECURSIVE SumOver(_, _, _)
SumOver(hash, ids, f) ==
    IF ids = {} THEN 0
    ELSE LET j == CHOOSE i \in ids : TRUE IN
           getJob(hash, j).progress[f] + SumOver(hash, ids \ {j}, f)

WithStatus(hash, status) ==
    {j \in Stored(hash) : getJob(hash, j).status = status}

\* C22: getStats counts every stored job: total is their number, each status
\* count is the number of jobs in that status, and each total_* is the sum of
\* that progress counter over all of them.
C22_StatsOverAllJobs ==
    ret.fn = "getStats" =>
      /\ ret.stats.total = Cardinality(Stored(jobHash))
      /\ \A status \in Statuses :
           ret.stats[status] = Cardinality(WithStatus(jobHash, status))
      /\ ret.stats.total_scraped = SumOver(jobHash, Stored(jobHash), "scraped")
      /\ ret.stats.total_analyzed = SumOver(jobHash, Stored(jobHash), "analyzed")
      /\ ret.stats.total_inserted = SumOver(jobHash, Stored(jobHash), "inserted")
      /\ ret.stats.total_pending = SumOver(jobHash, Stored(jobHash), "pending")
      /\ ret.stats.total_failed = SumOver(jobHash, Stored(jobHash), "failed")

\* What C22 says of the jobs getStats does read, the DefaultLimit newest.
C22_StatsOverListedJobs ==
    ret.fn = "getStats" =>
      LET listed == MostRecent(jobHash, DefaultLimit) IN
        /\ ret.stats.total = Cardinality(listed)
        /\ \A status \in Statuses :
             ret.stats[status] =
               Cardinality(WithStatus(jobHash, status) \cap listed)
        /\ ret.stats.total_scraped = SumOver(jobHash, listed, "scraped")
        /\ ret.stats.total_inserted = SumOver(jobHash, listed, "inserted")

\* C23: a clear call deletes every stored job in its status and returns
\* their number; afterwards no job in that status is retrievable or listed,
\* and the jobs in another status are as they were.
C23_ClearDeletesAll ==
    [][call'.fn = "clear" =>
         LET matching == WithStatus(jobHash, call'.status) IN
           /\ ret'.count = Cardinality(matching)
           /\ WithStatus(jobHash', call'.status) = {}
           /\ \A j \in matching : Occurrences(jobsList', j) = 0
           /\ \A j \in DOMAIN jobHash \ matching :
                /\ jobHash'[j] = jobHash[j]
                /\ Occurrences(jobsList', j) = Occurrences(jobsList, j)]_vars

\* What C23 says of the jobs the clear calls do read, the DefaultLimit newest.
C23_ClearDeletesListed ==
    [][call'.fn = "clear" =>
         LET listed == MostRecent(jobHash, DefaultLimit)
             matching == WithStatus(jobHash, call'.status) \cap listed
         IN /\ ret'.count = Cardinality(matching)
            /\ WithStatus(jobHash', call'.status) \cap listed = {}
            /\ \A j \in matching : Occurrences(jobsList', j) = 0
            /\ \A j \in DOMAIN jobHash \ matching :
                 /\ jobHash'[j] = jobHash[j]
                 /\ Occurrences(jobsList', j) = Occurrences(jobsList, j)]_vars

\* A step of the polling loop of pipeline p: an answer of the provider, or
\* the end of the loop.
PollStep(p) ==
    /\ pipe[p].pc = "poll"
    /\ \/ pipe'[p].pc # "poll"
       \/ pipe'[p].polls # pipe[p].polls
       \/ pipe'[p].runInfo # pipe[p].runInfo

\* One run whose polling loop is scheduled for as long as it is in the loop.
SpecRunFair ==
    SpecRun /\ \A p \in Pipes : WF_vars(ScrapePoll(p) /\ UNCHANGED auxVars)

\* C24: the polling loop ends. It asks the provider at most maxPolls times;
\* SUCCEEDED leads to fetching the results, FAILED and ABORTED to an error
\* with the provider's message, any other state to another poll, and the
\* loop that has polled maxPolls times throws the timeout error.
C24_PollingTerminates ==
    /\ [](\A p \in Pipes : pipe[p].polls <= MaxPolls)
    /\ [][\A p \in Pipes : PollStep(p) =>
           IF pipe[p].polls >= MaxPolls
             THEN /\ pipe'[p].runInfo = pipe[p].runInfo
                  /\ pipe'[p].pc = "scrape_failed_read"
                  /\ pipe'[p].scrapeError = TimedOut
             ELSE LET runInfo == pipe'[p].runInfo IN
                    CASE runInfo.status = "SUCCEEDED" ->
                           pipe'[p].pc = "list_items"
                      [] runInfo.status \in {"FAILED", "ABORTED"} ->
                           /\ pipe'[p].pc = "scrape_failed_read"
                           /\ pipe'[p].scrapeError =
                                RunFailed(runInfo.statusMessage)
                      [] OTHER ->
                           /\ pipe'[p].pc = "poll"
                           /\ pipe'[p].polls = pipe[p].polls + 1]_vars
    /\ \A p \in Pipes : (pipe[p].pc = "poll") ~> (pipe[p].pc # "poll")

\* A loop that saw no terminal state in maxPolls polls has timed out.
C24_Witness ==
    \E p \in Pipes :
      /\ pipe[p].polls = MaxPolls
      /\ pipe[p].runInfo # NullJob /\ pipe[p].runInfo.status = "READY"
      /\ pipe[p].scrapeError = TimedOut
      /\ pipe[p].pc = "scrape_failed_read"

\* Text without a character that is not whitespace.
Blank(text) == text = NullText \/ \A k \in 1..Len(text) : text[k] \in Whitespace

\* The number of whitespace-delimited words of a text.
WordCount(text) == IF Blank(text) THEN 0 ELSE Len(split(clean(text)))

IsPrefix(a, b) == Len(a) <= Len(b) /\ SubSeq(b, 1, Len(a)) = a

\* C25: for a transcript of at least 10 words, the candidate that is exactly
\* its first 10 words is returned with source gpt and score 1.0.
C25_FirstTenWords ==
    (/\ ret.fn = "validateHook"
     /\ WordCount(call.transcript) >= 10
     /\ call.gptHook = firstNWords(call.transcript, 10))
    => (ret.source = "gpt" /\ ret.score.num = ret.score.den)

\* The half of C25 the code keeps: the source, and the hook.
C25_FirstTenWordsAccepted ==
    (/\ ret.fn = "validateHook"
     /\ WordCount(call.transcript) >= 10
     /\ call.gptHook = firstNWords(call.transcript, 10))
    => (ret.source = "gpt" /\ ret.hook = call.gptHook)

\* C26: an empty or whitespace-only transcript yields hook null, source
\* none and score 0, whatever the candidate is.
C26_EmptyTranscript ==
    (ret.fn = "validateHook" /\ Blank(call.transcript))
    => (ret.hook = NullText /\ ret.source = "none" /\ ret.score.num = 0)

\* A whitespace-only transcript with an unrelated candidate.
C26_Witness ==
    /\ ret.fn = "validateHook"
    /\ call.transcript # NullText /\ Len(call.transcript) > 0
    /\ Blank(call.transcript)
    /\ call.gptHook = <<"#", "#", " ", "#">>
    /\ ret.source = "none"

BigramsOf(text) == {Bigram(text, i) : i \in 1..(Len(text) - 1)}

\* A candidate that is given, is no substring of the first 25 words of the
\* transcript and shares no bigram with its first 15 words.
Unrelated(gptHook, transcript) ==
    /\ ~Blank(gptHook)
    /\ ~includes(toLowerCase(firstNWords(transcript, SUBSTRING_WINDOW)),
                 toLowerCase(clean(gptHook)))
    /\ BigramsOf(toLowerCase(clean(gptHook)))
         \cap BigramsOf(toLowerCase(firstNWords(transcript, StartWords))) = {}

\* C27: for a transcript that is not empty and an unrelated candidate, the
\* source is first_sentence or first_n_words and the hook is a prefix of the
\* transcript (of the transcript as given).
C27_UnrelatedFallsBackRaw ==
    (/\ ret.fn = "validateHook"
     /\ ~Blank(call.transcript)
     /\ Unrelated(call.gptHook, call.transcript))
    => /\ ret.source \in {"first_sentence", "first_n_words"}
       /\ IsPrefix(ret.hook, call.transcript)

\* C27, the hook being a prefix of the normalised transcript (trimmed, runs
\* of whitespace collapsed) and not the candidate.
C27_UnrelatedFallsBack ==
    (/\ ret.fn = "validateHook"
     /\ ~Blank(call.transcript)
     /\ Unrelated(call.gptHook, call.transcript))
    => /\ ret.source \in {"first_sentence", "first_n_words"}
       /\ IsPrefix(ret.hook, clean(call.transcript))
       /\ ret.hook # clean(call.gptHook)

\* An unrelated candidate on a transcript of more than 15 words.
C27_Witness ==
    /\ ret.fn = "validateHook"
    /\ WordCount(call.transcript) > StartWords
    /\ Unrelated(call.gptHook, call.transcript)
    /\ Len(clean(call.gptHook)) >= 2
    /\ ret.source = "first_n_words"

\* The leading sentence of a transcript is one a fallback may return: it
\* ends in '.', '!' or '?' and has 5 to 25 words.
SentenceApplies(transcript) ==
    LET t == clean(transcript)
        ends == SentenceEnds(t)
    IN /\ ends # {}
       /\ LET n == WordCount(SubSeq(t, 1, CHOOSE k \in ends :
                                             \A m \in ends : k <= m))
          IN n >= MinSentenceWords /\ n <= MaxSentenceWords

\* C28: when no candidate is accepted and the transcript has no leading
\* sentence of 5 to 25 words that ends in punctuation, the result is
\* first_n_words with the first 12 words; first_sentence is returned only
\* for such a sentence.
C28_FallbackSource ==
    (ret.fn = "validateHook" /\ ~Blank(call.transcript) /\ ret.source # "gpt")
    => /\ ~SentenceApplies(call.transcript) =>
            /\ ret.source = "first_n_words"
            /\ ret.hook = firstNWords(call.transcript, FIRST_N_WORDS_DEFAULT)
       /\ ret.source = "first_sentence" => SentenceApplies(call.transcript)

\* The part of C28 the code keeps: the hook of the second fallback.
C28_FallbackHook ==
    (ret.fn = "validateHook" /\ ~Blank(call.transcript) /\ ret.source # "gpt")
    => /\ ~SentenceApplies(call.transcript) =>
            ret.hook = firstNWords(call.transcript, FIRST_N_WORDS_DEFAULT)
       /\ SentenceApplies(call.transcript) => ret.source = "first_sentence"

\* The whitespace-delimited words of a text start where a character that is
\* not whitespace follows whitespace or nothing.
WordStarts(text) ==
    {k \in 1..Len(text) :
       text[k] \notin Whitespace /\ (k = 1 \/ text[k - 1] \in Whitespace)}

\* The text holds a listed boilerplate phrase, letter case aside.
ContainsBoilerplate(text) ==
    \E p \in 1..Len(GarbagePhrases) :
      \E k \in 0..(Len(text) - Len(GarbagePhrases[p])) :
        \A i \in 1..Len(GarbagePhrases[p]) :
          Lower(text[k + i]) = GarbagePhrases[p][i]

\* C29: a transcript of at least 100 characters and at least 15 words that
\* holds a listed boilerplate phrase, in any letter case, is rejected with
\* rejected_reason garbage_phrase.
C29_GarbagePhrase ==
    (/\ ret.fn = "analyzeVideo"
     /\ ret.transcript # NullText
     /\ Len(ret.transcript) >= MinChars
     /\ Cardinality(WordStarts(ret.transcript)) >= MinWords
     /\ ContainsBoilerplate(ret.transcript))
    => ret.rejected_reason = "garbage_phrase"

\* A long transcript that ends in a boilerplate phrase in upper case.
C29_Witness ==
    /\ ret.fn = "analyzeVideo"
    /\ ret.transcript # NullText
    /\ Len(ret.transcript) >= MinChars
    /\ \E k \in 1..Len(ret.transcript) : ret.transcript[k] = "S"
    /\ ret.rejected_reason = "garbage_phrase"

\* The text of the segments Whisper gives less than 0.7 no-speech.
SpokenText(segments) ==
    LET kept == SelectSeq(segments, LAMBDA seg : seg.no_speech_prob < 70) IN
      trim(join([k \in 1..Len(kept) |-> kept[k].text]))

\* The word of a text that starts at k; no word of the text occurs twice.
WordAt(text, k) ==
    LET ends == {m \in k..Len(text) : m = Len(text) \/ text[m + 1] \in Whitespace}
    IN SubSeq(text, k, CHOOSE m \in ends : \A x \in ends : m <= x)

NoRepeatedWords(text) ==
    \A a, b \in WordStarts(text) : a # b => WordAt(text, a) # WordAt(text, b)

\* A recording whose segments have mean no-speech probability 0.1 and
\* whose spoken text has 20 words, none repeated, and no listed phrase.
TwentyCleanWords(segments) ==
    /\ segments # <<>>
    /\ SumProb(segments) = 10 * Len(segments)
    /\ Cardinality(WordStarts(SpokenText(segments))) = 20
    /\ NoRepeatedWords(SpokenText(segments))
    /\ ~ContainsBoilerplate(SpokenText(segments))

\* C30 as stated: every such recording is accepted.
C30_TwentyWordsAcceptedAnyLength ==
    (ret.fn = "analyzeVideo" /\ TwentyCleanWords(call.segments))
    => ret.rejected_reason = Nil

\* C30: such a recording is accepted when its transcript has at least 100
\* characters and is not numeric gibberish (at most 5 digits, no number at
\* its start).
C30_TwentyWordsAccepted ==
    (/\ ret.fn = "analyzeVideo"
     /\ TwentyCleanWords(call.segments)
     /\ Len(SpokenText(call.segments)) >= MinChars
     /\ Cardinality({k \in 1..Len(SpokenText(call.segments)) :
                       SpokenText(call.segments)[k] \in Digits}) <= MaxDigits
     /\ ~StartsWithNumber(SpokenText(call.segments)))
    => (ret.rejected_reason = Nil /\ ret.transcript = SpokenText(call.segments))

\* Twenty words after a segment of music that the transcript leaves out.
C30_Witness ==
    /\ ret.fn = "analyzeVideo"
    /\ TwentyCleanWords(call.segments)
    /\ Len(call.segments) = 11
    /\ call.segments[1].no_speech_prob = 80
    /\ ret.rejected_reason = Nil

\* The text is a phrase of six words, four times over.
SixWordsFourTimes(text) ==
    LET words == splitSpaces(text) IN
      /\ Len(words) = 24
      /\ \A k \in 1..24 : Len(words[k]) > 0
      /\ \A k \in 7..24 : words[k] = words[k - 6]

\* C31 as stated: every transcript that is a six-word phrase four times
\* over is rejected with rejected_reason song_lyrics.
C31_RefrainIsLyricsAnyLength ==
    (/\ ret.fn = "analyzeVideo"
     /\ ret.transcript # NullText
     /\ SixWordsFourTimes(ret.transcript))
    => ret.rejected_reason = "song_lyrics"

\* C31: a transcript that is a six-word phrase four times over, has at
\* least 100 characters and holds no listed boilerplate phrase is rejected
\* with rejected_reason song_lyrics, and comes back without a hook.
C31_RefrainIsLyrics ==
    (/\ ret.fn = "analyzeVideo"
     /\ ret.transcript # NullText
     /\ SixWordsFourTimes(ret.transcript)
     /\ Len(ret.transcript) >= MinChars
     /\ ~ContainsBoilerplate(ret.transcript))
    => (/\ ret.rejected_reason = "song_lyrics"
        /\ ret.analysis.rejected_reason = "song_lyrics"
        /\ ret.analysis.hook = NullText)

\* A refrain with a six-digit number among its words, rejected as lyrics.
C31_Witness ==
    /\ ret.fn = "analyzeVideo"
    /\ ret.transcript # NullText
    /\ SixWordsFourTimes(ret.transcript)
    /\ \E k \in 1..Len(ret.transcript) : ret.transcript[k] = "6"
    /\ ret.rejected_reason = "song_lyrics"

\* The speech-presence filter has rejected the transcript of the call.
FilterRejected ==
    /\ ret.fn = "analyzeVideo"
    /\ ret.analysis.analysis_mode = "video_no_transcript"

\* The no-speech probabilities of the first k segments, added up.
RECURSIVE NoSpeechSum(_, _)
NoSpeechSum(segments, k) ==
    IF k = 0 THEN 0
    ELSE NoSpeechSum(segments, k - 1) + segments[k].no_speech_prob

\* The segments show no speech: there are none, their mean no-speech
\* probability is above 0.5, or none of them is below 0.7.
SpeechAbsent(segments) ==
    \/ segments = <<>>
    \/ NoSpeechSum(segments, Len(segments)) > 50 * Len(segments)
    \/ \A k \in 1..Len(segments) : segments[k].no_speech_prob >= 70

\* The reasons that name a rule on the text of the transcript.
TextReasons == {"too_short", "garbage_phrase", "song_lyrics", "gibberish"}

\* C32: whenever the filter rejects a transcript the result has a null
\* hook, no completion was asked for, and the recorded rejected_reason is
\* not null and names what caused the rejection: a rule on the text only
\* when the segments showed speech, a segment-level case otherwise.
C32_RejectionRecorded ==
    FilterRejected =>
      (/\ ret.analysis.hook = NullText
       /\ ~ret.generated
       /\ ret.analysis.rejected_reason # Nil
       /\ SpeechAbsent(call.segments)
            => ret.analysis.rejected_reason \notin TextReasons)

\* The part of C32 about the hook and the completion: a rejected transcript
\* gives a null hook and a reason that is not null, without a completion,
\* and a completion is asked for only about an accepted transcript.
C32_RejectedNoHook ==
    /\ FilterRejected =>
         (/\ ret.analysis.hook = NullText
          /\ ~ret.generated
          /\ ret.analysis.rejected_reason \in TextReasons)
    /\ (ret.fn = "analyzeVideo" /\ SpeechAbsent(call.segments)) => FilterRejected
    /\ (ret.fn = "analyzeVideo" /\ ret.generated) => ret.rejected_reason = Nil

\* The words of a text, letter case aside.
LowerWords(text) == {toLowerCase(WordAt(text, k)) : k \in WordStarts(text)}

\* The reason the rules of the filter give for a text, in their order:
\* length and word count, listed phrases, repetition, numbers.
ReasonFor(text) ==
    LET n == Cardinality(WordStarts(text))
        digits == Cardinality({k \in 1..Len(text) : text[k] \in Digits})
    IN CASE Len(text) < 100 \/ n < 15 -> "too_short"
         [] OTHER ->
            CASE ContainsBoilerplate(text) -> "garbage_phrase"
              [] OTHER ->
                 CASE n > 5 /\ 2 * Cardinality(LowerWords(text)) < n -> "song_lyrics"
                   [] OTHER ->
                      IF digits > 5 \/ StartsWithNumber(text)
                        THEN "gibberish" ELSE Nil

\* C36: a transcription without segments, with a mean no-speech probability
\* above 0.5 or without a segment below 0.7 yields no transcript; any other
\* yields the texts of its segments below 0.7, in their order, and the
\* rules on length, words, phrases, repetition and digits are applied to
\* that text, the first of too_short, garbage_phrase, song_lyrics and
\* gibberish that applies being the reason.
C36_SegmentDetection ==
    ret.fn = "analyzeVideo" =>
      IF SpeechAbsent(call.segments)
        THEN ret.transcript = NullText /\ FilterRejected
        ELSE /\ ret.transcript = SpokenText(call.segments)
             /\ ret.rejected_reason = ReasonFor(SpokenText(call.segments))
             /\ ret.rejected_reason # Nil <=> FilterRejected

\* Twenty words in a clear segment after three segments of music: the mean
\* is above 0.5 and there is no transcript, though a segment is below 0.7.
C36_Witness ==
    /\ ret.fn = "analyzeVideo"
    /\ Len(call.segments) = 4
    /\ call.segments[4].no_speech_prob < 70
    /\ Cardinality(WordStarts(call.segments[4].text)) = 20
    /\ ret.transcript = NullText

\* The pipeline executions in progress for a job id.
ExecutionsOf(job_id) == {p \in Executing : pipe[p].job_id = job_id}

\* C33: at most one pipeline execution is in progress for a job id, and the
\* keys of activeJobs are exactly the ids of the executions in progress,
\* whatever requeueJob, cancelJob and deleteJob do to running jobs.
C33_OneOwner ==
    /\ \A job_id \in JobIds : Cardinality(ExecutionsOf(job_id)) <= 1
    /\ DOMAIN activeJobs = {pipe[p].job_id : p \in Executing}


\* The record as stored now, which a write of the copy read earlier replaces.
StoredNow(job_id) == getJob(jobHash, job_id)

\* The update a pipeline is about to write, applied to a record.
PipeUpdate(p, job) ==
    CASE pipe[p].pc \in {"scrape_failed_write", "catch_write"} ->
           AssignFailed(job, pipe[p].err)
      [] pipe[p].pc = "progress_scraped_write" ->
           AssignProgress(job, [scraped |-> pipe[p].ads, pending |-> pipe[p].ads])
      [] pipe[p].pc = "analyze_progress_write" ->
           AssignProgress(job, [analyzed |-> pipe[p].i + 1])
      [] pipe[p].pc = "progress_saved_write" ->
           AssignProgress(job, SavedProgress(pipe[p]))
      [] pipe[p].pc = "complete_write" ->
           AssignCompleted(job, [ads_scraped |-> pipe[p].ads,
                                 ads_analyzed |-> pipe[p].analysed,
                                 ads_inserted |-> pipe[p].inserted])

PipeWritePcs ==
    {"scrape_failed_write", "catch_write", "progress_scraped_write",
     "analyze_progress_write", "progress_saved_write", "complete_write"}

\* The write leaves the record of job_id as the update makes the record
\* that is stored at the moment of the write.
WritesAtomically(job_id, updated) ==
    /\ StoredNow(job_id) # NullJob
    /\ getJob(jobHash', job_id) = updated

\* C34: the updates of a job record are atomic for their callers: the HSET
\* of setRunning, of an update of a pipeline, of a progress callback, of
\* cancelJob and of requeueJob leaves the record that the update gives on
\* the record stored at that moment, with nothing of a stale copy in it.
C34_NoStaleWrite ==
    [][redisUp =>
         /\ (sched.pc = "set_running_write" /\ sched'.pc # "set_running_write")
              => WritesAtomically(sched.job_id,
                                  AssignRunning(StoredNow(sched.job_id)))
         /\ \A p \in Pipes :
              (pipe[p].pc \in PipeWritePcs /\ pipe'[p].pc # pipe[p].pc)
                => WritesAtomically(pipe[p].job_id,
                                    PipeUpdate(p, StoredNow(pipe[p].job_id)))
         /\ \A p \in Pipes :
              Len(pipe'[p].cbq) < Len(pipe[p].cbq)
                => WritesAtomically(pipe[p].job_id,
                                    AssignProgress(StoredNow(pipe[p].job_id),
                                                   Head(pipe[p].cbq).upd))
         /\ \A r \in Requests :
              (req[r].pc = "hset" /\ req'[r].pc # "hset")
                => WritesAtomically(req[r].job_id,
                     IF req[r].op = "cancel"
                       THEN AssignCancelled(StoredNow(req[r].job_id))
                       ELSE AssignRequeued(StoredNow(req[r].job_id)))]_vars

\* The particular case of C34: the write of a progress callback leaves the
\* status and the error of the record as they are stored.
C34_CallbackKeepsStatus ==
    [][\A p \in Pipes :
         (Len(pipe'[p].cbq) < Len(pipe[p].cbq) /\ StoredNow(pipe[p].job_id) # NullJob)
           => LET job == getJob(jobHash', pipe[p].job_id) IN
                /\ job.status = StoredNow(pipe[p].job_id).status
                /\ job.error = StoredNow(pipe[p].job_id).error]_vars

\* The clients that exist and are not closed.
OpenClients == {k \in ClientIds : isOpen(k)}

\* C37: at most one client is open (made and not closed, connecting
\* included) at any time.
C37_SingleClient == Cardinality(OpenClients) <= 1

\* The parts of C37 about a call during a connect and about a closed
\* client: a call of getRedisClient makes a client only when the module
\* variable holds none or a closed one, never while the client it holds
\* connects, and the client a call returns is the module variable's.
C37_SharedWhileConnecting ==
    [][\A c \in Callers :
         initCall'[c].calls > initCall[c].calls =>
           /\ (redisClient # 0 /\ isOpen(redisClient))
                => (redisClients' = redisClients /\ initCall'[c].redis = redisClient)
           /\ (redisClient = 0 \/ ~isOpen(redisClient))
                => (/\ redisClient' \notin {0, redisClient}
                    /\ redisClients[redisClient'] = "none"
                    /\ redisClients'[redisClient'] = "connecting")]_vars

\* The step on which setCompleted writes the job of pipeline p as completed.
WritesCompleted(p) ==
    /\ pipe[p].pc = "complete_write"
    /\ pipe'[p].pc = "side_effects"
    /\ getJob(jobHash', pipe[p].job_id) # NullJob
    /\ getJob(jobHash', pipe[p].job_id).status = "completed"

\* C38: when a job with auto_analyze reaches completed, the stored
\* progress.analyzed counts the items whose analysis was run: all the
\* scraped items, or all but those whose analysis threw.
C38_AnalyzedCountsAll ==
    [][\A p \in Pipes :
         (WritesCompleted(p) /\ pipe[p].job.auto_analyze /\ OPENAI_API_KEY) =>
           LET analyzed == getJob(jobHash', pipe[p].job_id).progress.analyzed IN
             /\ analyzed <= pipe[p].ads
             /\ analyzed >= pipe[p].ads - pipe[p].analysisErrors]_vars

\* What holds instead: the stored count is a multiple of the batch size,
\* at most the number of items, and the result of the job carries the
\* number of items that got an analysis.
C38_AnalyzedIsBatchCount ==
    [][\A p \in Pipes :
         WritesCompleted(p) =>
           LET job == getJob(jobHash', pipe[p].job_id) IN
             /\ job.progress.analyzed % BatchSize = 0
             /\ job.progress.analyzed <= pipe[p].ads
             /\ job.result.ads_analyzed = pipe[p].analysed]_vars

\* C39: every id in the work queue is the id of a stored job whose status
\* is queued, at every step of createJob, cancelJob, requeueJob, deleteJob
\* and of the scheduler's claim.
C39_QueueHoldsQueuedJobs ==
    \A k \in 1..Len(queue) :
      /\ jobHash[queue[k]] # NoData
      /\ getJob(jobHash, queue[k]).status = "queued"


\* C39 between the calls of the API: whenever no createJob, cancelJob,
\* requeueJob or deleteJob is under way, every id in the work queue is the
\* id of a stored job whose status is queued.
C39_QueuedBetweenCalls ==
    (\A r \in Requests : req[r].pc = "idle") => C39_QueueHoldsQueuedJobs

\* The job is in the hands of a pipeline, or its record says so.
Started(job_id) ==
    \/ \E p \in Executing : pipe[p].job_id = job_id
    \/ StatusIn(jobHash, job_id) \in {"running", "completed", "failed"}

\* C40: no queued job is lost: when the store is reachable from some
\* moment on, every job whose id has been pushed on the work queue is
\* eventually claimed and started by the scheduler.
C40_QueuedJobStarts ==
    <>[]redisUp =>
      \A job_id \in JobIds : (Occurrences(queue, job_id) > 0) ~> Started(job_id)

\* C40 while the store stays reachable.
C40_QueuedJobStartsWhenUp ==
    []redisUp =>
      \A job_id \in JobIds : (Occurrences(queue, job_id) > 0) ~> Started(job_id)

\* The candidate of the call after normalisation, and after lowercasing.
Candidate == clean(call.gptHook)

CandidateLower == toLowerCase(Candidate)

\* part occurs in text as a run of consecutive characters.
OccursIn(part, text) ==
    \E i \in 1..(Len(text) + 1) : \E j \in (i - 1)..Len(text) :
      SubSeq(text, i, j) = part

\* The number of places where the bigram occurs in the text.
CountOf(bigram, text) ==
    Cardinality({i \in 1..(Len(text) - 1) : SubSeq(text, i, i + 1) = bigram})

\* The size of the intersection of the multisets of bigrams of a and b.
RECURSIVE SharedOver(_, _, _)
SharedOver(bigrams, a, b) ==
    IF bigrams = {} THEN 0
    ELSE LET bigram == CHOOSE x \in bigrams : TRUE
             inA == CountOf(bigram, a)
             inB == CountOf(bigram, b)
         IN (IF inA < inB THEN inA ELSE inB)
              + SharedOver(bigrams \ {bigram}, a, b)

SharedBigrams(a, b) == SharedOver(BigramsOf(a) \cap BigramsOf(b), a, b)

\* The Dice similarity of a and b is at least 0.6: 2 x shared over the
\* numbers of bigrams of both, 1 for equal strings, 0 for a string of less
\* than 2 characters otherwise.
DiceAtLeastSixTenths(a, b) ==
    \/ a = b
    \/ /\ Len(a) >= 2 /\ Len(b) >= 2
       /\ 10 * 2 * SharedBigrams(a, b) >= 6 * ((Len(a) - 1) + (Len(b) - 1))

\* The acceptance rule for the candidate of the call.
AcceptedByRule ==
    \/ OccursIn(CandidateLower,
                toLowerCase(firstNWords(call.transcript, SUBSTRING_WINDOW)))
    \/ DiceAtLeastSixTenths(CandidateLower,
                            toLowerCase(firstNWords(call.transcript, StartWords)))

\* C35: a candidate that is not empty after normalisation is returned as
\* the hook with source gpt if and only if, lowercased, it is a substring
\* of the first 25 words of the transcript or its bigram Dice similarity to
\* the first 15 words is at least 0.6; a rejected candidate is never the
\* hook that is returned, and the score of every result lies in [0, 1].
C35_AcceptanceRule ==
    ret.fn = "validateHook" =>
      /\ ret.score.den > 0 /\ ret.score.num >= 0
      /\ ret.score.num <= ret.score.den
      /\ ~Blank(call.gptHook) =>
           /\ (ret.source = "gpt") <=> AcceptedByRule
           /\ AcceptedByRule => ret.hook = Candidate
           /\ ~AcceptedByRule => ret.hook \notin {Candidate, call.gptHook}

\* A candidate accepted for its similarity alone, with a score below 1.
C35_Witness ==
    /\ ret.fn = "validateHook"
    /\ ~Blank(call.gptHook)
    /\ ~OccursIn(CandidateLower,
                 toLowerCase(firstNWords(call.transcript, SUBSTRING_WINDOW)))
    /\ ret.source = "gpt"
    /\ ret.hook = Candidate
    /\ ret.score.num < ret.score.den

\* A candidate from beyond the first 15 words, accepted as a substring.
C35_SubstringWitness ==
    /\ ret.fn = "validateHook"
    /\ ~Blank(call.gptHook)
    /\ ~DiceAtLeastSixTenths(CandidateLower,
                             toLowerCase(firstNWords(call.transcript, StartWords)))
    /\ ret.source = "gpt"

\* A candidate that shares bigrams with the start and is rejected.
C35_RejectedWitness ==
    /\ ret.fn = "validateHook"
    /\ ~Blank(call.gptHook)
    /\ SharedBigrams(CandidateLower,
                     toLowerCase(firstNWords(call.transcript, StartWords))) > 0
    /\ ret.source \in {"first_sentence", "first_n_words"}

=============================================================================
